---- MODULE Spec2Model ----
(***************************************************************************)
(* A model of filter1d (src/src/filter1d.c): time-domain filtering of 1-D  *)
(* data tables.  GMT_filter1d loads one segment at a time, sets up the     *)
(* filter and runs filter1d_do_the_filter over the output times.           *)
(*                                                                         *)
(* A C double is modelled as an exact extended rational <<n, d>>:          *)
(*   d > 0  : the finite value n/d in lowest terms,                        *)
(*   <<0,0>>: NaN,   <<1,0>>: +infinity,   <<-1,0>>: -infinity.            *)
(* The tolerance `small` of the code is a time step times GMT_CONV8_LIMIT  *)
(* (1e-8); it is carried as the time step and the comparisons in which it  *)
(* appears treat the product as smaller than any non-zero difference of    *)
(* two model values, which is exact for the value grids of this model.     *)
(***************************************************************************)
EXTENDS Integers, Sequences, FiniteSets, TLC

VARIABLES
    Ctrl,   \* the parsed options (struct FILTER1D_CTRL) and the table file of -F
    D,      \* the input dataset: its segments
    F,      \* struct FILTER1D_INFO
    loc,    \* locals of filter1d_do_the_filter that live across output points
    pt,     \* locals of filter1d_do_the_filter for the output point last visited
    out,    \* the records handed to GMT_Put_Record, in order
    pc,     \* position in GMT_filter1d
    seg     \* tseg: index of the current segment

vars == <<Ctrl, D, F, loc, pt, out, pc, seg>>

(***************************************************************************)
(* Extended rational arithmetic (IEEE-like treatment of NaN and infinity). *)
(***************************************************************************)
DBL_MAX == 30000

AbsI(i) == IF i < 0 THEN -i ELSE i

SgnI(i) == IF i < 0 THEN -1 ELSE IF i > 0 THEN 1 ELSE 0

RECURSIVE Gcd(_, _)
Gcd(a, b) == IF b = 0 THEN a ELSE Gcd(b, a % b)

d_NaN == <<0, 0>>

Rat(n, d) ==
    IF d = 0 THEN <<SgnI(n), 0>>
    ELSE LET g == Gcd(AbsI(n), AbsI(d))
             s == SgnI(d)
         IN  IF \/ AbsI(n) \div AbsI(d) > DBL_MAX
                \/ AbsI(n) \div AbsI(d) = DBL_MAX /\ AbsI(n) % AbsI(d) # 0
             THEN <<SgnI(n) * s, 0>>
             ELSE <<(s * n) \div g, (s * d) \div g>>

R(i) == <<i, 1>>

is_dnan(a) == a = d_NaN

IsInf(a) == a[2] = 0 /\ a[1] # 0

IsFin(a) == a[2] > 0

Neg(a) == <<-a[1], a[2]>>

Add(a, b) ==
    IF is_dnan(a) \/ is_dnan(b) THEN d_NaN
    ELSE IF IsInf(a) THEN (IF IsInf(b) /\ b[1] # a[1] THEN d_NaN ELSE a)
    ELSE IF IsInf(b) THEN b
    ELSE Rat(a[1] * b[2] + b[1] * a[2], a[2] * b[2])

Sub(a, b) == Add(a, Neg(b))

Mul(a, b) ==
    IF is_dnan(a) \/ is_dnan(b) THEN d_NaN
    ELSE IF IsInf(a) \/ IsInf(b)
         THEN (IF a[1] = 0 \/ b[1] = 0 THEN d_NaN ELSE <<SgnI(a[1]) * SgnI(b[1]), 0>>)
    ELSE Rat(a[1] * b[1], a[2] * b[2])

Div(a, b) ==
    IF is_dnan(a) \/ is_dnan(b) THEN d_NaN
    ELSE IF IsInf(b) THEN (IF IsInf(a) THEN d_NaN ELSE R(0))
    ELSE IF IsInf(a) THEN <<a[1] * (IF b[1] < 0 THEN -1 ELSE 1), 0>>
    ELSE Rat(a[1] * b[2], a[2] * b[1])

\* a < b as C compares doubles: false when either is NaN
Lt(a, b) ==
    /\ ~is_dnan(a)
    /\ ~is_dnan(b)
    /\ IF IsInf(a) \/ IsInf(b)
       THEN (IF IsInf(a) /\ IsInf(b) THEN a[1] < b[1]
             ELSE IF IsInf(a) THEN a[1] < 0 ELSE b[1] > 0)
       ELSE a[1] * b[2] < b[1] * a[2]

Gt(a, b) == Lt(b, a)

Le(a, b) == ~is_dnan(a) /\ ~is_dnan(b) /\ ~Lt(b, a)

Ge(a, b) == Le(b, a)

fabs(a) == <<AbsI(a[1]), a[2]>>

\* floor of a finite rational
FloorR(a) == a[1] \div a[2]

\* lrint under the default rounding mode: to nearest, ties to even
lrint(a) ==
    LET f == FloorR(a)
        twice == 2 * (a[1] - f * a[2])
    IN  IF twice < a[2] THEN f
        ELSE IF twice > a[2] THEN f + 1
        ELSE IF f % 2 = 0 THEN f ELSE f + 1

(***************************************************************************)
(* Comparisons that involve the tolerance s * GMT_CONV8_LIMIT.             *)
(***************************************************************************)
\* (a - s * GMT_CONV8_LIMIT) > h
GtTol(a, s, h) == ~is_dnan(s) /\ (Gt(a, h) \/ (IsFin(a) /\ a = h /\ Lt(s, R(0))))

\* (a - s * GMT_CONV8_LIMIT) <= h
LeTol(a, s, h) == ~is_dnan(s) /\ (Lt(a, h) \/ (IsFin(a) /\ a = h /\ Ge(s, R(0))))

\* (a + s * GMT_CONV8_LIMIT) < h
LtTolPlus(a, s, h) == ~is_dnan(s) /\ (Lt(a, h) \/ (IsFin(a) /\ a = h /\ Lt(s, R(0))))

(***************************************************************************)
(* Arrays are functions on 0 .. n-1, as in C.                              *)
(***************************************************************************)
Arr(s) == [i \in 0 .. Len(s) - 1 |-> s[i + 1]]

ArrR(s) == [i \in 0 .. Len(s) - 1 |-> R(s[i + 1])]

MAX(a, b) == IF a >= b THEN a ELSE b

GMT_CHUNK == 8

FILTER1D_BOXCAR == 0

FILTER1D_COS_ARCH == 1

FILTER1D_GAUSSIAN == 2

FILTER1D_CUSTOM == 3

FILTER1D_MEDIAN == 4

FILTER1D_MODE == 5

FILTER1D_LOWER_ALL == 6

FILTER1D_LOWER_POS == 7

FILTER1D_UPPER_ALL == 8

FILTER1D_UPPER_NEG == 9

FILTER1D_CONVOLVE == 3

tolower(ch) ==
    CASE ch = "B" -> "b" [] ch = "C" -> "c" [] ch = "G" -> "g"
      [] ch = "M" -> "m" [] ch = "P" -> "p" [] ch = "F" -> "f"
      [] OTHER -> ch

\* the switch on the filter code
FilterType(ch) ==
    CASE ch = "b" -> FILTER1D_BOXCAR
      [] ch = "c" -> FILTER1D_COS_ARCH
      [] ch = "g" -> FILTER1D_GAUSSIAN
      [] ch = "m" -> FILTER1D_MEDIAN
      [] ch = "p" -> FILTER1D_MODE
      [] ch = "l" -> FILTER1D_LOWER_ALL
      [] ch = "L" -> FILTER1D_LOWER_POS
      [] ch = "u" -> FILTER1D_UPPER_ALL
      [] ch = "U" -> FILTER1D_UPPER_NEG
      [] ch = "f" -> FILTER1D_CUSTOM
      [] OTHER -> 0

ZeroCols(n) == [c \in 0 .. n - 1 |-> R(0)]

(***************************************************************************)
(* F after memset, filter1d_load_parameters, the filter switch and         *)
(* filter1d_allocate_space, for the options C and n_cols input columns.    *)
(***************************************************************************)
filter1d_load_parameters(C, n_cols) ==
    LET isRobust == C.F_filter \in {"B", "C", "G", "M", "P", "F"}
        ch == IF isRobust THEN tolower(C.F_filter) ELSE C.F_filter
        ftype == FilterType(ch)
    IN  [ use_ends |-> C.E_active,
          check_asym |-> C.S_active,
          check_lack |-> C.L_active,
          check_q |-> C.Q_active,
          robust |-> IF ftype > FILTER1D_CONVOLVE THEN FALSE ELSE isRobust,
          equidist |-> ~C.D_active,
          out_at_time |-> C.T_active,
          f_operator |-> FALSE,
          highpass |-> C.F_highpass,
          variable |-> C.F_variable,
          n_cols |-> n_cols,
          t_col |-> C.N_col,
          n_f_wts |-> 0,
          half_n_f_wts |-> 0,
          n_rows |-> 0,
          n_row_alloc |-> 0,
          n_work_alloc |-> GMT_CHUNK,
          filter_type |-> ftype,
          kind |-> (CASE ch = "L" -> 1 [] ch = "U" -> -1 [] OTHER -> 0),
          way |-> (CASE ch \in {"l", "L"} -> -1 [] ch \in {"u", "U"} -> 1 [] OTHER -> 0),
          mode_selection |-> IF ch = "p" THEN C.F_mode ELSE 0,
          n_multiples |-> 0,
          nw |-> 0,
          ft |-> <<>>,
          fw |-> <<>>,
          f_wt |-> <<>>,
          min_loc |-> ZeroCols(n_cols),
          max_loc |-> ZeroCols(n_cols),
          last_loc |-> ZeroCols(n_cols),
          this_loc |-> ZeroCols(n_cols),
          min_scl |-> ZeroCols(n_cols),
          max_scl |-> ZeroCols(n_cols),
          last_scl |-> ZeroCols(n_cols),
          this_scl |-> ZeroCols(n_cols),
          data |-> [c \in 0 .. n_cols - 1 |-> <<>>],
          dt |-> C.D_inc,
          q_factor |-> C.Q_value,
          filter_width |-> C.F_width,
          half_width |-> R(0),
          t_start |-> C.T_min,
          t_stop |-> C.T_max,
          t_start_t |-> C.T_min,
          t_stop_t |-> C.T_max,
          t_int |-> C.T_inc,
          sym_coeff |-> C.S_value,
          lack_width |-> C.L_value,
          extreme |-> (CASE ch = "l" -> R(DBL_MAX) [] ch = "u" -> R(-DBL_MAX) [] OTHER -> R(0)),
          Fin |-> IF ch = "f" THEN C.F_table ELSE <<>>,
          W |-> IF C.F_variable THEN C.F_table ELSE <<>>,
          T |-> [set |-> C.T_set, n |-> 0, array |-> <<>>] ]

(***************************************************************************)
(* GMT_filter1d: loading one segment.                                      *)
(***************************************************************************)
\* gmt_M_memory on F->data[i]: the old cells are kept, fresh cells are zero
filter1d_allocate_data_space(G, n_alloc) ==
    [G EXCEPT !.n_row_alloc = n_alloc,
              !.data = [c \in 0 .. G.n_cols - 1 |->
                           [r \in 0 .. n_alloc - 1 |->
                               IF r < G.n_row_alloc THEN G.data[c][r] ELSE R(0)]]]

TrackExtrema(G) == G.robust \/ G.filter_type = FILTER1D_MEDIAN

\* the body of the row loop for a row whose time is accepted
StoreRow(G, S, row) ==
    [G EXCEPT !.data = [c \in 0 .. G.n_cols - 1 |->
                           [G.data[c] EXCEPT ![row] = S.data[c][row]]],
              !.max_loc = [c \in 0 .. G.n_cols - 1 |->
                              IF TrackExtrema(G) /\ Gt(S.data[c][row], G.max_loc[c])
                              THEN S.data[c][row] ELSE G.max_loc[c]],
              !.min_loc = [c \in 0 .. G.n_cols - 1 |->
                              IF TrackExtrema(G) /\ Lt(S.data[c][row], G.min_loc[c])
                              THEN S.data[c][row] ELSE G.min_loc[c]]]

\* a row loop that never compares the times
RECURSIVE LoadRowsUnchecked(_, _, _, _)
LoadRowsUnchecked(G, S, row, last_time) ==
    IF row >= S.n_rows THEN [F |-> [G EXCEPT !.n_rows = row], err |-> FALSE]
    ELSE IF is_dnan(S.data[G.t_col][row]) THEN LoadRowsUnchecked(G, S, row + 1, last_time)
    ELSE LoadRowsUnchecked(StoreRow(G, S, row), S, row + 1, last_time)

\* a row loop that also refuses a time equal to the one before
RECURSIVE LoadRowsStrict(_, _, _, _)
LoadRowsStrict(G, S, row, last_time) ==
    IF row >= S.n_rows THEN [F |-> [G EXCEPT !.n_rows = row], err |-> FALSE]
    ELSE LET in == S.data[G.t_col][row]
         IN  IF is_dnan(in) THEN LoadRowsStrict(G, S, row + 1, last_time)
             ELSE IF Le(in, last_time)
                  THEN [F |-> [G EXCEPT !.n_rows = row], err |-> TRUE]
                  ELSE LoadRowsStrict(StoreRow(G, S, row), S, row + 1, in)

\* for (row = F.n_rows = 0; row < S->n_rows; ++row, ++F.n_rows): F.n_rows
\* advances with row, also past a row that `continue` skips
RECURSIVE LoadRows(_, _, _, _)
LoadRows(G, S, row, last_time) ==
    IF row >= S.n_rows THEN [F |-> [G EXCEPT !.n_rows = row], err |-> FALSE]
    ELSE LET in == S.data[G.t_col][row]
         IN  IF is_dnan(in) THEN LoadRows(G, S, row + 1, last_time)
             ELSE IF Lt(in, last_time)
                  THEN [F |-> [G EXCEPT !.n_rows = row], err |-> TRUE]
                  ELSE LoadRows(StoreRow(G, S, row), S, row + 1, in)

\* min/max reset before the rows are read
ResetExtrema(G) ==
    IF TrackExtrema(G)
    THEN [G EXCEPT !.min_loc = [c \in 0 .. G.n_cols - 1 |-> R(DBL_MAX)],
                   !.max_loc = [c \in 0 .. G.n_cols - 1 |-> R(-DBL_MAX)]]
    ELSE G

\* FILTER: Initialize scale parameters and last_loc based on min and max of data
InitScales(G) ==
    IF TrackExtrema(G)
    THEN [G EXCEPT !.min_scl = [c \in 0 .. G.n_cols - 1 |-> R(0)],
                   !.max_scl = [c \in 0 .. G.n_cols - 1 |->
                                   Mul(Rat(1, 2), Sub(G.max_loc[c], G.min_loc[c]))],
                   !.last_scl = [c \in 0 .. G.n_cols - 1 |->
                                   Mul(Rat(1, 2), Mul(Rat(1, 2), Sub(G.max_loc[c], G.min_loc[c])))],
                   !.last_loc = [c \in 0 .. G.n_cols - 1 |->
                                   Mul(Rat(1, 2), Add(G.max_loc[c], G.min_loc[c]))]]
    ELSE G

\* the width table of this segment: shared, or one per input segment
SetWidthTable(G, tseg) ==
    IF G.variable
    THEN LET ks == IF G.W.n_segments > 1 THEN tseg ELSE 0
         IN  [G EXCEPT !.ft = G.W.segment[ks].ft,
                       !.fw = G.W.segment[ks].fw,
                       !.nw = G.W.segment[ks].n_rows]
    ELSE G

LoadResult(G, S, tseg) ==
    LET G1 == IF S.n_rows > G.n_row_alloc
              THEN filter1d_allocate_data_space(G, MAX(GMT_CHUNK, S.n_rows))
              ELSE G
        res == LoadRows(ResetExtrema(G1), S, 0, R(-DBL_MAX))
    IN  IF res.err THEN res
        ELSE [F |-> SetWidthTable(InitScales(res.F), tseg), err |-> FALSE]

LoadSegment ==
    /\ pc = "load"
    /\ seg < D.n_segments
    /\ LET res == LoadResult(F, D.segment[seg], seg)
       IN  /\ F' = res.F
           /\ pc' = IF res.err THEN "abort" ELSE "setup"
    /\ UNCHANGED <<Ctrl, D, loc, pt, out, seg>>

(***************************************************************************)
(* filter1d_set_up_filter                                                  *)
(***************************************************************************)
\* a boxcar that drops the sample at the edge of the window
boxcar_weight_open(radius, half_width) ==
    IF Ge(radius, half_width) THEN R(0) ELSE R(1)

filter1d_boxcar_weight(radius, half_width) ==
    IF Gt(radius, half_width) THEN R(0) ELSE R(1)

\* cos (y * M_PI) for 0 <= y <= 1, as the rational function
\* (1 - 4y^2)/(1 + y^2) on [0, 1/2] and its mirror image on (1/2, 1]; it
\* agrees with the cosine at y = 0, 1/3, 1/2, 2/3 and 1
cos_pi(y) ==
    IF Le(y, Rat(1, 2))
    THEN Div(Sub(R(1), Mul(R(4), Mul(y, y))), Add(R(1), Mul(y, y)))
    ELSE Neg(Div(Sub(R(1), Mul(R(4), Mul(Sub(R(1), y), Sub(R(1), y)))),
                 Add(R(1), Mul(Sub(R(1), y), Sub(R(1), y)))))

\* exp (-x) for 0 <= x <= 9/2, as the straight line from 1 at x = 0 to 1/9
\* at x = 9/2: positive and decreasing like the exponential, and 1 at 0
exp_neg(x) == Sub(R(1), Mul(Rat(16, 81), x))

filter1d_cosine_weight(radius, half_width) ==
    IF Gt(radius, half_width) THEN R(0)
    ELSE IF half_width = R(0) THEN d_NaN
    ELSE Add(R(1), cos_pi(Div(radius, half_width)))

filter1d_gaussian_weight(radius, half_width) ==
    IF Gt(radius, half_width) THEN R(0)
    ELSE IF half_width = R(0) THEN d_NaN
    ELSE exp_neg(Div(Mul(Rat(9, 2), Mul(radius, radius)), Mul(half_width, half_width)))

\* ( *get_weight[F->filter_type]) (time, F->half_width)
get_weight(filter_type, radius, half_width) ==
    IF filter_type = FILTER1D_COS_ARCH THEN filter1d_cosine_weight(radius, half_width)
    ELSE IF filter_type = FILTER1D_GAUSSIAN THEN filter1d_gaussian_weight(radius, half_width)
    ELSE filter1d_boxcar_weight(radius, half_width)

RECURSIVE SumArr(_, _)
SumArr(a, n) == IF n = 0 THEN R(0) ELSE Add(SumArr(a, n - 1), a[n - 1])

\* gmt_M_is_zero: |x| < GMT_CONV8_LIMIT
gmt_M_is_zero(x) == x = R(0)

\* the coefficient part for FILTER1D_CUSTOM
SetUpCustom(G, dt) ==
    LET n == G.Fin.n_records
        w_sum == SumArr(G.Fin.coef, n)
        half_n == n \div 2
        hw == Mul(R(half_n), dt)
    IN  [G EXCEPT !.dt = dt,
                  !.n_f_wts = n,
                  !.f_wt = [i \in 0 .. n - 1 |->
                               IF Gt(w_sum, R(1)) THEN Div(G.Fin.coef[i], w_sum)
                               ELSE G.Fin.coef[i]],
                  !.f_operator = gmt_M_is_zero(w_sum),
                  !.half_n_f_wts = half_n,
                  !.half_width = hw,
                  !.filter_width = Mul(R(2), hw)]

\* a kernel whose taps are evaluated at their distance from the first tap
SetUpKernelFromEnd(G, dt) ==
    LET hw == Mul(Rat(1, 2), G.filter_width)
        half_n == lrint(Div(hw, dt))
        n == 2 * half_n + 1
    IN  [G EXCEPT !.dt = dt,
                  !.half_width = hw,
                  !.half_n_f_wts = half_n,
                  !.n_f_wts = n,
                  !.f_wt = [i \in 0 .. n - 1 |->
                               get_weight(G.filter_type, Mul(R(i), dt), hw)]]

\* the coefficient part for the boxcar, cosine-arch and gaussian kernels
SetUpKernel(G, dt) ==
    LET hw == Mul(Rat(1, 2), G.filter_width)
        half_n == lrint(Div(hw, dt))
        n == 2 * half_n + 1
    IN  [G EXCEPT !.dt = dt,
                  !.half_width = hw,
                  !.half_n_f_wts = half_n,
                  !.n_f_wts = n,
                  !.f_wt = [i \in 0 .. n - 1 |->
                               get_weight(G.filter_type, Mul(R(AbsI(i - half_n)), dt), hw)]]

\* lrint of a value that is not finite, or a negative count of weights
KernelUndefined(G, dt) ==
    /\ G.filter_type # FILTER1D_CUSTOM
    /\ G.filter_type <= FILTER1D_CONVOLVE
    /\ LET q == Div(Mul(Rat(1, 2), G.filter_width), dt)
       IN  ~IsFin(q) \/ lrint(q) < 0

SetUpDt(G) ==
    IF G.equidist
    THEN Div(Sub(G.data[G.t_col][G.n_rows - 1], G.data[G.t_col][0]), R(G.n_rows - 1))
    ELSE G.dt

SetUpCoefficients(G) ==
    LET dt == SetUpDt(G)
    IN  IF G.filter_type = FILTER1D_CUSTOM THEN SetUpCustom(G, dt)
        ELSE IF G.filter_type <= FILTER1D_CONVOLVE THEN SetUpKernel(G, dt)
        ELSE [G EXCEPT !.dt = dt, !.half_width = Mul(Rat(1, 2), G.filter_width)]

\* floor (x) * y for finite x
FloorTimes(x, y) == Mul(R(FloorR(x)), y)

\* Initialize start/stop time when output is at evenly spaced times
StartStopAtTime(G) ==
    LET t_0 == G.data[G.t_col][0]
        t_1 == G.data[G.t_col][G.n_rows - 1]
        start == IF G.T.set = 1 \/ Lt(G.t_start_t, t_0)
                 THEN (IF G.T.set = 1
                       THEN FloorTimes(Div(t_0, G.t_int), G.t_int)
                       ELSE Add(G.t_start_t,
                                FloorTimes(Div(Sub(t_0, G.t_start_t), G.t_int), G.t_int)))
                 ELSE G.t_start_t
        stop == IF G.T.set = 1 \/ Gt(G.t_stop_t, t_1)
                THEN (IF G.T.set = 1
                      THEN Neg(FloorTimes(Neg(Div(t_1, G.t_int)), G.t_int))
                      ELSE Sub(G.t_stop_t,
                               FloorTimes(Div(Sub(G.t_stop_t, t_1), G.t_int), G.t_int)))
                ELSE G.t_stop_t
    IN  [G EXCEPT !.t_start = IF G.use_ends THEN start ELSE Add(start, G.half_width),
                  !.t_stop = IF G.use_ends THEN stop ELSE Sub(stop, G.half_width)]

\* for (row = 0; (F->data[F->t_col][row] - t_0 + small) < F->half_width; ++row);
\* the scan has no bound: it yields n_row_alloc when it leaves the array
RECURSIVE ScanStart(_, _, _)
ScanStart(G, small, row) ==
    IF row >= G.n_row_alloc THEN row
    ELSE IF LtTolPlus(Sub(G.data[G.t_col][row], G.data[G.t_col][0]), small, G.half_width)
         THEN ScanStart(G, small, row + 1)
         ELSE row

\* for (row = F->n_rows - 1; row > 0 && (t_1 - F->data[F->t_col][row] + small) < F->half_width; --row);
RECURSIVE ScanStop(_, _, _)
ScanStop(G, small, row) ==
    IF row > 0 /\ LtTolPlus(Sub(G.data[G.t_col][G.n_rows - 1], G.data[G.t_col][row]),
                            small, G.half_width)
    THEN ScanStop(G, small, row - 1)
    ELSE row

NativeSmall(G) == Sub(G.data[G.t_col][1], G.data[G.t_col][0])

\* the scan for t_start reads past the allocated rows
StartScanLeaves(G) ==
    /\ ~G.out_at_time
    /\ ~G.use_ends
    /\ ScanStart(G, NativeSmall(G), 0) >= G.n_row_alloc

\* Initialize start/stop time when output is at the input times
StartStopNative(G) ==
    IF G.use_ends
    THEN [G EXCEPT !.t_start = G.data[G.t_col][0],
                   !.t_stop = G.data[G.t_col][G.n_rows - 1]]
    ELSE LET small == NativeSmall(G)
         IN  [G EXCEPT !.t_start = G.data[G.t_col][ScanStart(G, small, 0)],
                       !.t_stop = G.data[G.t_col][ScanStop(G, small, G.n_rows - 1)]]

filter1d_set_up_filter(G) ==
    LET G1 == SetUpCoefficients(G)
    IN  IF G1.out_at_time THEN StartStopAtTime(G1) ELSE StartStopNative(G1)

\* the call has no defined outcome
SetUpUndefined(G) ==
    \/ KernelUndefined(G, SetUpDt(G))
    \/ (~KernelUndefined(G, SetUpDt(G)) /\ StartScanLeaves(SetUpCoefficients(G)))

\* if (!F.variable && filter1d_set_up_filter (GMT, &F))
SetUpFilter ==
    /\ pc = "setup"
    /\ IF F.variable THEN F' = F /\ pc' = "begin"
       ELSE IF SetUpUndefined(F) THEN F' = F /\ pc' = "undefined"
       ELSE F' = filter1d_set_up_filter(F) /\ pc' = "begin"
    /\ UNCHANGED <<Ctrl, D, loc, pt, out, seg>>

(***************************************************************************)
(* Library calls of the engine (their code is outside the module).         *)
(***************************************************************************)
\* gmt_create_array for -T<min>/<max>/<inc> or -T<inc>: the equidistant
\* times t_start, t_start + t_int, ... not beyond t_stop
gmt_create_array(G) ==
    IF ~IsFin(G.t_start) \/ ~IsFin(G.t_stop) \/ Lt(G.t_stop, G.t_start)
    THEN [err |-> TRUE, n |-> 0, array |-> <<>>]
    ELSE LET n == FloorR(Div(Sub(G.t_stop, G.t_start), G.t_int)) + 1
         IN  [err |-> FALSE, n |-> n,
              array |-> [i \in 0 .. n - 1 |-> Add(G.t_start, Mul(R(i), G.t_int))]]

\* the table abscissae increase strictly
RECURSIVE Increasing(_, _)
Increasing(x, n) ==
    IF n < 2 THEN TRUE ELSE Lt(x[n - 2], x[n - 1]) /\ Increasing(x, n - 1)

\* gmt_intpol (x, y, n, 1, &u, &v): linear interpolation of one value;
\* an error code when the table has fewer than two rows or is not monotonic
gmt_intpol(x, y, n, u) ==
    IF n < 2 \/ ~Increasing(x, n) THEN [err |-> TRUE, v |-> d_NaN]
    ELSE LET j == CHOOSE i \in 0 .. n - 2 : Le(x[i], u) /\ Le(u, x[i + 1])
         IN  [err |-> FALSE,
              v |-> Add(y[j], Mul(Sub(y[j + 1], y[j]),
                                  Div(Sub(u, x[j]), Sub(x[j + 1], x[j]))))]

(***************************************************************************)
(* filter1d_do_the_filter: before the loop.                                *)
(***************************************************************************)
\* for (k = 0; F->data[F->t_col][k] < F->t_start; ++k);
RECURSIVE ScanK(_, _)
ScanK(G, k) ==
    IF k >= G.n_row_alloc THEN k
    ELSE IF Lt(G.data[G.t_col][k], G.t_start) THEN ScanK(G, k + 1) ELSE k

\* for (last_k = F->n_rows-1; last_k && F->data[F->t_col][last_k] > F->t_stop; --last_k);
RECURSIVE ScanLastK(_, _)
ScanLastK(G, last_k) ==
    IF last_k # 0 /\ Gt(G.data[G.t_col][last_k], G.t_stop)
    THEN ScanLastK(G, last_k - 1)
    ELSE last_k

\* what a read of an element outside an array may yield
GarbageDoubles == {R(-1), R(0), R(1)}

\* small = (F->T.array[1] - F->T.array[0]) * GMT_CONV8_LIMIT, without the factor
SmallChoices(Tarr) ==
    IF Tarr.n >= 2 THEN {Sub(Tarr.array[1], Tarr.array[0])}
    ELSE {Sub(g, Tarr.array[0]) : g \in GarbageDoubles}

NoPoint ==
    [ branch |-> "none", k |-> 0, t_time |-> R(0), left |-> 0, right |-> 0,
      n_in_filter |-> 0, good_lack |-> <<>>, good_robust |-> <<>>, good_one |-> <<>>,
      n_this_col |-> <<>>, n_left |-> <<>>, n_right |-> <<>>,
      wt_sum |-> <<>>, data_sum |-> <<>>, n_good_ones |-> 0, emitted |-> FALSE ]

BeginFilter ==
    /\ pc = "begin"
    /\ IF F.out_at_time
       THEN LET res == gmt_create_array(F)
            IN  IF res.err
                THEN /\ pc' = "abort"
                     /\ UNCHANGED <<F, loc>>
                ELSE /\ F' = [F EXCEPT !.T.n = res.n, !.T.array = res.array]
                     /\ \E s \in SmallChoices(res) :
                           loc' = [k |-> 0, last_k |-> res.n - 1, left |-> 0,
                                   right |-> 0, small |-> s]
                     /\ pc' = "loop"
       ELSE LET Tarr == [n |-> F.n_rows,
                         array |-> [i \in 0 .. F.n_rows - 1 |-> F.data[F.t_col][i]]]
                k0 == ScanK(F, 0)
            IN  IF k0 >= F.n_row_alloc
                THEN /\ pc' = "undefined"
                     /\ UNCHANGED <<F, loc>>
                ELSE /\ F' = [F EXCEPT !.T.n = Tarr.n, !.T.array = Tarr.array]
                     /\ \E s \in SmallChoices(Tarr) :
                           loc' = [k |-> k0, last_k |-> ScanLastK(F, F.n_rows - 1),
                                   left |-> 0, right |-> 0, small |-> s]
                     /\ pc' = "loop"
    /\ pt' = NoPoint
    /\ UNCHANGED <<Ctrl, D, out, seg>>

(***************************************************************************)
(* filter1d_do_the_filter: the data window of one output time.             *)
(***************************************************************************)
\* the first row from r on that is not left of the window
RECURSIVE ScanLeftFrom(_, _, _, _)
ScanLeftFrom(G, t_k, small, r) ==
    IF r < G.n_rows /\ Gt(Sub(t_k, G.data[G.t_col][r]), G.half_width)
    THEN ScanLeftFrom(G, t_k, small, r + 1)
    ELSE r

\* a left pointer found by a scan that starts again at row 0
AdvanceLeftFromZero(G, t_k, small, left) == ScanLeftFrom(G, t_k, small, 0)

\* while (left < F->n_rows && (F->T.array[k] - F->data[F->t_col][left] - small) > F->half_width) ++left;
RECURSIVE AdvanceLeft(_, _, _, _)
AdvanceLeft(G, t_k, small, left) ==
    IF left < G.n_rows /\ GtTol(Sub(t_k, G.data[G.t_col][left]), small, G.half_width)
    THEN AdvanceLeft(G, t_k, small, left + 1)
    ELSE left

\* a right pointer that stops at a row exactly half_width after the time
RECURSIVE AdvanceRightStrict(_, _, _, _)
AdvanceRightStrict(G, t_k, small, right) ==
    IF right < G.n_rows /\ Lt(Sub(G.data[G.t_col][right], t_k), G.half_width)
    THEN AdvanceRightStrict(G, t_k, small, right + 1)
    ELSE right

\* a right pointer that is held by the allocated rows only
RECURSIVE AdvanceRightInAlloc(_, _, _, _)
AdvanceRightInAlloc(G, t_k, small, right) ==
    IF right < G.n_row_alloc /\ LeTol(Sub(G.data[G.t_col][right], t_k), small, G.half_width)
    THEN AdvanceRightInAlloc(G, t_k, small, right + 1)
    ELSE right

\* while (right < F->n_rows && (F->data[F->t_col][right] - F->T.array[k] - small) <= F->half_width) ++right;
RECURSIVE AdvanceRight(_, _, _, _)
AdvanceRight(G, t_k, small, right) ==
    IF right < G.n_rows /\ LeTol(Sub(G.data[G.t_col][right], t_k), small, G.half_width)
    THEN AdvanceRight(G, t_k, small, right + 1)
    ELSE right

\* a test that leaves the point only for an empty window
NothingToFilterEmptyOnly(G, left, right) == right - left <= 0

\* n_in_filter <= 0 || (F->check_lack && ((F->filter_width / n_in_filter) > F->lack_width))
NothingToFilter(G, left, right) ==
    \/ right - left <= 0
    \/ (G.check_lack /\ Gt(Div(G.filter_width, R(right - left)), G.lack_width))

(***************************************************************************)
(* filter1d_lack_check                                                     *)
(***************************************************************************)
\* while (!(gmt_M_is_dnan (F->data[i_col][row])) && row < (right - 1)) ++row;
RECURSIVE LackAdvance(_, _, _, _)
LackAdvance(G, i_col, row, right) ==
    IF ~is_dnan(G.data[i_col][row]) /\ row < right - 1
    THEN LackAdvance(G, i_col, row + 1, right)
    ELSE row

\* while (!(lacking) && this_row < (right - 1))
RECURSIVE LackLoop(_, _, _, _, _)
LackLoop(G, i_col, this_row, last_t, right) ==
    IF this_row < right - 1
    THEN LET r == LackAdvance(G, i_col, this_row, right)
         IN  IF Gt(Sub(G.data[G.t_col][r], last_t), G.lack_width) THEN TRUE
             ELSE LackLoop(G, i_col, r + 1, G.data[G.t_col][r], right)
    ELSE FALSE

filter1d_lack_check(G, i_col, left, right) ==
    LET last_row == LackAdvance(G, i_col, left, right)
    IN  LackLoop(G, i_col, last_row + 1, G.data[G.t_col][last_row], right)

(***************************************************************************)
(* Order statistics of the library: gmt_median, gmt_mode, gmt_extreme.     *)
(***************************************************************************)
RECURSIVE Insert(_, _)
Insert(x, s) ==
    IF s = <<>> THEN <<x>>
    ELSE IF Le(x, Head(s)) THEN <<x>> \o s
    ELSE <<Head(s)>> \o Insert(x, Tail(s))

RECURSIVE gmt_sort_array(_)
gmt_sort_array(s) == IF s = <<>> THEN <<>> ELSE Insert(Head(s), gmt_sort_array(Tail(s)))

\* the median of the n values of x; NaN when there is none
gmt_median(x) ==
    LET n == Len(x)
        s == gmt_sort_array(x)
    IN  IF n = 0 THEN d_NaN
        ELSE IF n % 2 = 1 THEN s[(n + 1) \div 2]
        ELSE Mul(Rat(1, 2), Add(s[n \div 2], s[n \div 2 + 1]))

\* the extreme value: kind +1 skips negative values, -1 skips positive
\* values; way -1 finds the minimum, +1 the maximum; x_default when no
\* value is left
RECURSIVE ExtremeOf(_, _)
ExtremeOf(s, way) ==
    IF Len(s) = 1 THEN s[1]
    ELSE LET e == ExtremeOf(Tail(s), way)
         IN  IF way = -1 THEN (IF Lt(s[1], e) THEN s[1] ELSE e)
             ELSE (IF Gt(s[1], e) THEN s[1] ELSE e)

gmt_extreme(x, x_default, kind, way) ==
    LET kept == SelectSeq(x, LAMBDA v : ~(kind = -1 /\ Gt(v, R(0)))
                                         /\ ~(kind = 1 /\ Lt(v, R(0))))
    IN  IF kept = <<>> THEN x_default ELSE ExtremeOf(kept, way)

\* the least-median-of-squares mode: the midpoint of the shortest interval
\* that holds j + 1 of the sorted values; mode_selection picks the lowest
\* (-1) or highest (+1) or the average (0) of several equally short ones
RECURSIVE ModeScan(_, _, _, _, _)
ModeScan(s, j, i, sel, acc) ==
    IF i > Len(s) - j THEN acc
    ELSE LET length == Sub(s[i + j], s[i])
             mid == Mul(Rat(1, 2), Add(s[i + j], s[i]))
         IN  IF length = acc.length_min
             THEN ModeScan(s, j, i + 1, sel,
                      CASE sel = -1 -> acc
                        [] sel = 1 -> [acc EXCEPT !.sum = mid]
                        [] OTHER -> [acc EXCEPT !.sum = Add(acc.sum, mid),
                                                !.multiplicity = acc.multiplicity + 1])
             ELSE IF Lt(length, acc.length_min)
             THEN ModeScan(s, j, i + 1, sel,
                      [length_min |-> length, sum |-> mid, multiplicity |-> 1])
             ELSE ModeScan(s, j, i + 1, sel, acc)

gmt_mode(x, j, sel) ==
    LET n == Len(x)
        s == gmt_sort_array(x)
    IN  IF n = 0 THEN [est |-> d_NaN, multiples |-> 0]
        ELSE IF n = 1 THEN [est |-> x[1], multiples |-> 0]
        ELSE LET acc == ModeScan(s, j, 1, sel,
                            [length_min |-> Add(Sub(s[n], s[1]), R(1)),
                             sum |-> R(0), multiplicity |-> 0])
             IN  IF acc.multiplicity > 1
                 THEN [est |-> Div(acc.sum, R(acc.multiplicity)),
                       multiples |-> acc.multiplicity - 1]
                 ELSE [est |-> acc.sum, multiples |-> 0]

(***************************************************************************)
(* filter1d_get_robust_estimates for column j with the work values x.      *)
(***************************************************************************)
filter1d_get_robust_estimates(G, j, x, both) ==
    LET md == gmt_mode(x, Len(x) \div 2, G.mode_selection)
        temp == IF G.filter_type > FILTER1D_MODE
                THEN gmt_extreme(x, G.extreme, G.kind, G.way)
                ELSE IF G.filter_type = FILTER1D_MODE THEN md.est
                ELSE gmt_median(x)
        G1 == [G EXCEPT !.last_loc[j] = temp,
                        !.this_loc[j] = temp,
                        !.n_multiples = IF G.filter_type = FILTER1D_MODE
                                        THEN G.n_multiples + md.multiples
                                        ELSE G.n_multiples]
        dev == [i \in 1 .. Len(x) |-> fabs(Sub(x[i], temp))]
        scl == gmt_median(dev)
    IN  IF both THEN [G1 EXCEPT !.last_scl[j] = scl, !.this_scl[j] = scl]
        ELSE G1

(***************************************************************************)
(* filter1d_do_the_filter: the robust / order-statistic pass.              *)
(***************************************************************************)
Cols(G) == 0 .. G.n_cols - 1

\* a first loop that makes the lack check whether or not -L was given
GoodAfterLackAlways(G, left, right) ==
    [c \in Cols(G) |->
        IF c = G.t_col THEN FALSE
        ELSE ~filter1d_lack_check(G, c, left, right)]

\* good_one[] as the first loop over the columns sets it
GoodAfterLack(G, left, right) ==
    [c \in Cols(G) |->
        IF c = G.t_col THEN FALSE
        ELSE IF G.check_lack THEN ~filter1d_lack_check(G, c, left, right)
        ELSE TRUE]

\* the values F->work[i_col][0 .. n_this_col-1] gathered from rows first .. right-1
RECURSIVE WorkOf(_, _, _, _)
WorkOf(G, c, first, right) ==
    IF first >= right THEN <<>>
    ELSE IF is_dnan(G.data[c][first]) THEN WorkOf(G, c, first + 1, right)
    ELSE <<G.data[c][first]>> \o WorkOf(G, c, first + 1, right)

\* rows of the window with a value in column c, before (side -1) or after (side +1) t_time
SideRows(G, c, left, right, t_time, side) ==
    {r \in left .. right - 1 :
        /\ ~is_dnan(G.data[c][r])
        /\ IF side < 0 THEN Lt(G.data[G.t_col][r], t_time)
           ELSE Gt(G.data[G.t_col][r], t_time)}

\* a gate that lets a column pass only when its ratio is known to be small enough
AsymmetricUnlessBelow(G, n_l, n_r) ==
    LET diff == IF n_l >= n_r THEN n_l - n_r ELSE n_r - n_l
    IN  ~Le(Div(R(diff), R(n_l + n_r)), G.sym_coeff)

\* symmetry > F->sym_coeff, with symmetry = ((double)diff)/(n_l + n_r)
Asymmetric(G, n_l, n_r) ==
    LET diff == IF n_l >= n_r THEN n_l - n_r ELSE n_r - n_l
    IN  Gt(Div(R(diff), R(n_l + n_r)), G.sym_coeff)

RECURSIVE EstimateCols(_, _, _, _)
EstimateCols(G, good, work, c) ==
    IF c >= G.n_cols THEN G
    ELSE EstimateCols(IF good[c]
                      THEN filter1d_get_robust_estimates(G, c, work[c], G.robust)
                      ELSE G,
                      good, work, c + 1)

UsesWork(G) == G.robust \/ G.filter_type > FILTER1D_CONVOLVE

\* if (F->robust || F->filter_type > FILTER1D_CONVOLVE) { ... }
RobustPass(G, good0, left, right, t_time) ==
    LET work == [c \in Cols(G) |-> IF good0[c] THEN WorkOf(G, c, left, right) ELSE <<>>]
        n_this == [c \in Cols(G) |-> Len(work[c])]
        n_l == [c \in Cols(G) |->
                   IF G.check_asym /\ good0[c]
                   THEN Cardinality(SideRows(G, c, left, right, t_time, -1)) ELSE 0]
        n_r == [c \in Cols(G) |->
                   IF G.check_asym /\ good0[c]
                   THEN Cardinality(SideRows(G, c, left, right, t_time, 1)) ELSE 0]
        good1 == [c \in Cols(G) |->
                     good0[c] /\ ~(G.check_asym /\ Asymmetric(G, n_l[c], n_r[c]))]
        iq == lrint(G.q_factor)
        good2 == [c \in Cols(G) |->
                     good1[c] /\ ~(G.filter_type > FILTER1D_CONVOLVE /\ G.check_q
                                   /\ n_this[c] < iq)]
        G1 == [G EXCEPT !.n_work_alloc = MAX(G.n_work_alloc, right - left)]
    IN  [F |-> EstimateCols(G1, good2, work, 0), good |-> good2,
         n_this_col |-> n_this, n_left |-> n_l, n_right |-> n_r]

NoRobustPass(G, good0) ==
    [F |-> G, good |-> good0,
     n_this_col |-> [c \in Cols(G) |-> 0],
     n_left |-> [c \in Cols(G) |-> 0],
     n_right |-> [c \in Cols(G) |-> 0]]

(***************************************************************************)
(* filter1d_do_the_filter: the convolution pass.                           *)
(***************************************************************************)
\* an index that drops the fraction of delta_time/F->dt
WeightIndexFloor(G, t_time, i_row) ==
    G.half_n_f_wts + FloorR(Div(Sub(t_time, G.data[G.t_col][i_row]), G.dt))

\* i_f_wt = F->half_n_f_wts + lrint (floor (0.5 + delta_time/F->dt))
WeightIndex(G, t_time, i_row) ==
    G.half_n_f_wts
        + FloorR(Add(Rat(1, 2), Div(Sub(t_time, G.data[G.t_col][i_row]), G.dt)))

\* (i_f_wt < 0) || (i_f_wt >= (int)F->n_f_wts)
IndexOutside(G, i_f_wt) == i_f_wt < 0 \/ i_f_wt >= G.n_f_wts

\* lrint of a value that is not finite
ConvUndefined(G, t_time, left, right) ==
    \E r \in left .. right - 1 :
        ~IsFin(Div(Sub(t_time, G.data[G.t_col][r]), G.dt))

\* a sample that enters the sum as it is, whatever its distance from the median
ClipNever(G, c, val) == val

\* val = ((fabs(val-med)) > (2.5 * scl)) ? med : val
Clip(G, c, val) ==
    IF Gt(fabs(Sub(val, G.this_loc[c])), Mul(Rat(5, 2), G.this_scl[c]))
    THEN G.this_loc[c] ELSE val

\* the sums of one column over rows i_row .. right-1, added to acc
RECURSIVE ConvolveCol(_, _, _, _, _, _)
ConvolveCol(G, c, t_time, i_row, right, acc) ==
    IF i_row >= right THEN acc
    ELSE LET i_f_wt == WeightIndex(G, t_time, i_row)
             v == G.data[c][i_row]
         IN  IF IndexOutside(G, i_f_wt) \/ is_dnan(v)
             THEN ConvolveCol(G, c, t_time, i_row + 1, right, acc)
             ELSE LET wt == G.f_wt[i_f_wt]
                      val == IF G.robust THEN Clip(G, c, v) ELSE v
                      count == ~G.robust /\ G.check_asym
                  IN  ConvolveCol(G, c, t_time, i_row + 1, right,
                          [wt_sum |-> Add(acc.wt_sum, wt),
                           data_sum |-> Add(acc.data_sum, Mul(wt, val)),
                           n |-> acc.n + 1,
                           n_l |-> IF count /\ Lt(G.data[G.t_col][i_row], t_time)
                                   THEN acc.n_l + 1 ELSE acc.n_l,
                           n_r |-> IF count /\ Gt(G.data[G.t_col][i_row], t_time)
                                   THEN acc.n_r + 1 ELSE acc.n_r])

\* a decision whose quality test compares the weight sum itself
GoodAfterConvolveSum(G, good, acc) ==
    /\ good
    /\ acc.n # 0
    /\ ~(G.check_asym /\ ~G.robust /\ Asymmetric(G, acc.n_l, acc.n_r))
    /\ ~(G.check_q /\ Lt(acc.wt_sum, G.q_factor))

\* the decision on a column after the sums are formed
GoodAfterConvolve(G, good, acc) ==
    /\ good
    /\ acc.n # 0
    /\ ~(G.check_asym /\ ~G.robust /\ Asymmetric(G, acc.n_l, acc.n_r))
    /\ ~(G.check_q /\ Lt(Div(acc.wt_sum, R(acc.n)), G.q_factor))

\* an output value that is divided by the weight sum also for an operator
ConvolveValueMean(G, c, k, acc) ==
    IF G.highpass THEN Sub(G.data[c][k], Div(acc.data_sum, acc.wt_sum))
    ELSE Div(acc.data_sum, acc.wt_sum)

\* outval[i_col] of a passing column
ConvolveValue(G, c, k, acc) ==
    LET low == IF G.f_operator THEN acc.data_sum ELSE Div(acc.data_sum, acc.wt_sum)
    IN  IF G.highpass THEN Sub(G.data[c][k], low) ELSE low

\* data_sum[i_col] of a passing column for the median, mode and extreme filters
OrderValue(G, c, k) ==
    IF G.highpass THEN Sub(G.data[c][k], G.this_loc[c]) ELSE G.this_loc[c]

(***************************************************************************)
(* filter1d_do_the_filter: one pass of the while loop over output times.   *)
(***************************************************************************)
\* a width step that sets the filter up without storing the new width
VariableWidthKeepsWidth(G, t_k) ==
    IF ~G.variable THEN [branch |-> "ok", F |-> G]
    ELSE IF Lt(t_k, G.ft[0]) \/ Gt(t_k, G.ft[G.nw - 1])
    THEN [branch |-> "outside_table", F |-> G]
    ELSE IF gmt_intpol(G.ft, G.fw, G.nw, t_k).err THEN [branch |-> "interp_fail", F |-> G]
    ELSE IF SetUpUndefined(G) THEN [branch |-> "undefined", F |-> G]
    ELSE IF Lt(t_k, filter1d_set_up_filter(G).t_start)
            \/ Gt(t_k, filter1d_set_up_filter(G).t_stop)
    THEN [branch |-> "outside_window", F |-> filter1d_set_up_filter(G)]
    ELSE [branch |-> "ok", F |-> filter1d_set_up_filter(G)]

\* if (F->variable) { ... }: the filter width for this time
VariableWidth(G, t_k) ==
    IF ~G.variable THEN [branch |-> "ok", F |-> G]
    ELSE IF Lt(t_k, G.ft[0]) \/ Gt(t_k, G.ft[G.nw - 1])
    THEN [branch |-> "outside_table", F |-> G]
    ELSE LET ip == gmt_intpol(G.ft, G.fw, G.nw, t_k)
             G1 == [G EXCEPT !.filter_width = ip.v]
         IN  IF ip.err THEN [branch |-> "interp_fail", F |-> G]
             ELSE IF SetUpUndefined(G1) THEN [branch |-> "undefined", F |-> G1]
             ELSE LET G2 == filter1d_set_up_filter(G1)
                  IN  IF Lt(t_k, G2.t_start) \/ Gt(t_k, G2.t_stop)
                      THEN [branch |-> "outside_window", F |-> G2]
                      ELSE [branch |-> "ok", F |-> G2]

\* the point is left before the window is looked at
SkipPoint(G, L, branch) ==
    [F |-> G,
     loc |-> IF branch = "interp_fail" THEN L ELSE [L EXCEPT !.k = L.k + 1],
     pt |-> [NoPoint EXCEPT !.branch = branch, !.k = L.k, !.t_time = G.T.array[L.k],
                            !.left = L.left, !.right = L.right],
     pc |-> IF branch = "undefined" THEN "undefined" ELSE "loop",
     recs |-> <<>>]

\* the record handed to GMT_Put_Record
OutputRecord(G1, k, t_time, order, good, acc) ==
    [c \in Cols(G1) |->
        IF c = G1.t_col THEN t_time
        ELSE IF good[c]
             THEN (IF order THEN OrderValue(G1, c, k) ELSE ConvolveValue(G1, c, k, acc[c]))
             ELSE d_NaN]

\* the point after its columns are decided
PointFiltered(G1, L, left, right, good0, rp, acc, good, n_good_ones) ==
    LET k == L.k
        t_time == G1.T.array[k]
        order == G1.filter_type > FILTER1D_CONVOLVE
    IN  [F |-> G1,
         loc |-> [L EXCEPT !.k = k + 1, !.left = left, !.right = right],
         pt |-> [ branch |-> "filtered", k |-> k, t_time |-> t_time,
                  left |-> left, right |-> right, n_in_filter |-> right - left,
                  good_lack |-> good0, good_robust |-> rp.good, good_one |-> good,
                  n_this_col |-> [c \in Cols(G1) |->
                                     IF order THEN rp.n_this_col[c] ELSE acc[c].n],
                  n_left |-> [c \in Cols(G1) |->
                                 IF UsesWork(G1) THEN rp.n_left[c] ELSE acc[c].n_l],
                  n_right |-> [c \in Cols(G1) |->
                                  IF UsesWork(G1) THEN rp.n_right[c] ELSE acc[c].n_r],
                  wt_sum |-> [c \in Cols(G1) |-> acc[c].wt_sum],
                  data_sum |-> [c \in Cols(G1) |-> acc[c].data_sum],
                  n_good_ones |-> n_good_ones,
                  emitted |-> n_good_ones > 0 ],
         pc |-> "loop",
         recs |-> IF n_good_ones > 0
                  THEN <<OutputRecord(G1, k, t_time, order, good, acc)>> ELSE <<>>]

\* an index or a rounding of this point has no defined outcome
PointUndefined(G1, L, left, right, n_good_ones) ==
    \/ (G1.filter_type <= FILTER1D_CONVOLVE
        /\ ConvUndefined(G1, G1.T.array[L.k], left, right))
    \/ (G1.highpass /\ n_good_ones > 0 /\ L.k >= G1.n_row_alloc)

DecidePoint(G, L, left, right, good0, rp, acc, good) ==
    IF PointUndefined(rp.F, L, left, right, Cardinality({c \in Cols(G) : good[c]}))
    THEN [SkipPoint(G, L, "undefined") EXCEPT !.pt.left = left, !.pt.right = right]
    ELSE PointFiltered(rp.F, L, left, right, good0, rp, acc, good,
                       Cardinality({c \in Cols(G) : good[c]}))

ZeroSums == [wt_sum |-> R(0), data_sum |-> R(0), n |-> 0, n_l |-> 0, n_r |-> 0]

ConvolvePass(G, L, left, right, good0, rp, acc) ==
    DecidePoint(G, L, left, right, good0, rp, acc,
        [c \in Cols(G) |->
            IF G.filter_type > FILTER1D_CONVOLVE THEN rp.good[c]
            ELSE GoodAfterConvolve(rp.F, rp.good[c], acc[c])])

AfterRobustPass(G, L, left, right, good0, rp) ==
    ConvolvePass(G, L, left, right, good0, rp,
        [c \in Cols(G) |->
            IF G.filter_type <= FILTER1D_CONVOLVE /\ rp.good[c]
               /\ ~ConvUndefined(rp.F, G.T.array[L.k], left, right)
            THEN ConvolveCol(rp.F, c, G.T.array[L.k], left, right, ZeroSums)
            ELSE ZeroSums])

AfterLack(G, L, left, right, good0) ==
    AfterRobustPass(G, L, left, right, good0,
        IF UsesWork(G) THEN RobustPass(G, good0, left, right, G.T.array[L.k])
        ELSE NoRobustPass(G, good0))

\* the columns are filtered for the window [left, right)
FilterWindow(G, L, left, right) ==
    AfterLack(G, L, left, right, GoodAfterLack(G, left, right))

\* the point once the filter width of its time is known
WindowPoint(G, L, left, right) ==
    IF NothingToFilter(G, left, right)
    THEN [SkipPoint(G, L, "nothing") EXCEPT
             !.loc.left = left, !.loc.right = right,
             !.pt.left = left, !.pt.right = right,
             !.pt.n_in_filter = right - left]
    ELSE FilterWindow(G, L, left, right)

AfterWidth(L, vw) ==
    IF vw.branch # "ok" THEN SkipPoint(vw.F, L, vw.branch)
    ELSE WindowPoint(vw.F, L,
             AdvanceLeft(vw.F, vw.F.T.array[L.k], L.small, L.left),
             AdvanceRight(vw.F, vw.F.T.array[L.k], L.small, L.right))

\* the body of while (k <= last_k)
PointResult(G, L) == AfterWidth(L, VariableWidth(G, G.T.array[L.k]))

\* the step taken from F and loc
ApplyPoint(res) ==
    /\ F' = res.F
    /\ loc' = res.loc
    /\ pt' = res.pt
    /\ pc' = res.pc
    /\ out' = IF res.recs = <<>> THEN out
              ELSE Append(out, [seg |-> seg, k |-> loc.k, data |-> res.recs[1]])

FilterPoint ==
    /\ pc = "loop"
    /\ loc.k <= loc.last_k
    /\ ApplyPoint(PointResult(F, loc))
    /\ UNCHANGED <<Ctrl, D, seg>>

\* the loop is left: the next segment, or the end of the run
EndFilter ==
    /\ pc = "loop"
    /\ loc.k > loc.last_k
    /\ seg' = seg + 1
    /\ pc' = IF seg + 1 < D.n_segments THEN "load" ELSE "done"
    /\ F' = [F EXCEPT !.T.array = <<>>]
    /\ UNCHANGED <<Ctrl, D, loc, pt, out>>

Next == LoadSegment \/ SetUpFilter \/ BeginFilter \/ FilterPoint \/ EndFilter

(***************************************************************************)
(* Inputs.                                                                 *)
(***************************************************************************)
\* a segment from its rows, each row a tuple of n_cols values
Segment(rows) ==
    [n_rows |-> Len(rows),
     data |-> [c \in 0 .. Len(rows[1]) - 1 |->
                  [r \in 0 .. Len(rows) - 1 |-> rows[r + 1][c + 1]]]]

\* a dataset from its segments
Dataset(segs) ==
    [n_segments |-> Len(segs), n_columns |-> Cardinality(DOMAIN segs[1].data),
     segment |-> [i \in 0 .. Len(segs) - 1 |-> segs[i + 1]]]

\* rows <<time, value>> from a tuple of integer times and a tuple of values
Rows2(ts, vs) == [i \in 1 .. Len(ts) |-> <<R(ts[i]), vs[i]>>]

\* New_Ctrl: every option off
New_Ctrl ==
    [ D_active |-> FALSE, D_inc |-> R(0), E_active |-> FALSE,
      F_filter |-> "b", F_width |-> R(0), F_highpass |-> FALSE, F_variable |-> FALSE,
      F_mode |-> 0, F_table |-> <<>>,
      L_active |-> FALSE, L_value |-> R(0), N_col |-> 0,
      Q_active |-> FALSE, Q_value |-> R(0), S_active |-> FALSE, S_value |-> R(0),
      T_active |-> FALSE, T_set |-> 0, T_min |-> R(0), T_max |-> R(0), T_inc |-> R(0) ]

\* the state when the loop over the segments is entered
InitWith(C, data) ==
    /\ Ctrl = C
    /\ D = data
    /\ F = filter1d_load_parameters(C, data.n_columns)
    /\ loc = [k |-> 0, last_k |-> 0, left |-> 0, right |-> 0, small |-> R(0)]
    /\ pt = NoPoint
    /\ out = <<>>
    /\ pc = "load"
    /\ seg = 0

(***************************************************************************)
(* The end-to-end scenario and its family: an evenly sampled series, a     *)
(* boxcar of width 2*m*dt, output at the input times, ends trimmed.        *)
(***************************************************************************)
MaxRows == 5

MaxStep == 2

\* evenly sampled times 0, dt, 2 dt, ... and the values of the scenario or others
EvenSeries ==
    {Segment(Rows2([i \in 1 .. n |-> (i - 1) * dt], [i \in 1 .. n |-> R(v[i])])) :
        n \in 2 .. MaxRows, dt \in 1 .. MaxStep,
        v \in {[i \in 1 .. MaxRows |-> i], [i \in 1 .. MaxRows |-> (i * i) % 5],
               [i \in 1 .. MaxRows |-> 3 - i]}}

InitEven ==
    \E S \in EvenSeries, m \in 0 .. MaxRows - 1 :
        /\ m <= S.n_rows - 1
        /\ InitWith([New_Ctrl EXCEPT !.F_filter = "b",
                         !.F_width = Mul(R(2 * m),
                                         Sub(S.data[0][1], S.data[0][0]))],
                    Dataset(<<S>>))

SpecEven == InitEven /\ [][Next]_vars

\* the input of the scenario: (0,1) (1,2) (2,3) (3,4) (4,5)
ScenarioSeries ==
    Segment(Rows2(<<0, 1, 2, 3, 4>>, <<R(1), R(2), R(3), R(4), R(5)>>))

\* the sum of the values of column 1 over rows lo .. hi of segment S
RECURSIVE SumRows(_, _, _)
SumRows(S, lo, hi) ==
    IF lo > hi THEN R(0) ELSE Add(S.data[1][lo], SumRows(S, lo + 1, hi))

\* the records of the moving average over 2m+1 rows of the only segment
EvenExpected ==
    LET S == D.segment[0]
        dt == Sub(S.data[0][1], S.data[0][0])
        m == FloorR(Div(Ctrl.F_width, Mul(R(2), dt)))
        cnt == IF S.n_rows - 2 * m > 0 THEN S.n_rows - 2 * m ELSE 0
    IN  [i \in 1 .. cnt |->
            [seg |-> 0, k |-> m + i - 1,
             data |-> (0 :> S.data[0][m + i - 1]
                       @@ 1 :> Div(SumRows(S, i - 1, i - 1 + 2 * m), R(2 * m + 1)))]]

\* C3: for an evenly sampled series without gaps in its values and a
\* boxcar of width 2*m*dt (output at the input times, ends trimmed, no
\* gate), the records emitted are those of rows m .. n-1-m in order, each
\* holding the mean of the 2m+1 samples centred on its row: at any moment
\* the output is a prefix of that list and at the end of the run it is the
\* whole list; the input (0,1) (1,2) (2,3) (3,4) (4,5) with width 2 ends
\* with exactly (1,2) (2,3) (3,4).
C3_EvenBoxcarMovingAverage ==
    /\ Len(out) <= Len(EvenExpected)
    /\ \A i \in 1 .. Len(out) : out[i] = EvenExpected[i]
    /\ pc = "done" => Len(out) = Len(EvenExpected)
    /\ (pc = "done" /\ D.segment[0] = ScenarioSeries /\ Ctrl.F_width = R(2))
          => [i \in 1 .. Len(out) |-> out[i].data]
                = << (0 :> R(1) @@ 1 :> R(2)), (0 :> R(2) @@ 1 :> R(3)),
                     (0 :> R(3) @@ 1 :> R(4)) >>

\* the scenario has run to its end and emitted its three records
C3_Witness ==
    /\ pc = "done"
    /\ D.segment[0] = ScenarioSeries
    /\ Ctrl.F_width = R(2)
    /\ Len(out) = 3

(***************************************************************************)
(* The window tracker: series with non-decreasing (possibly repeated)      *)
(* times, one or two segments, a boxcar or a median filter of fixed width  *)
(* at the input times or at equidistant times, or of a width interpolated  *)
(* from a table at equidistant times.                                      *)
(***************************************************************************)
WinRows == 4

WinTime == 3

\* the tuples of n non-decreasing times in 0 .. WinTime
OrderedTimes(n) ==
    {ts \in [1 .. n -> 0 .. WinTime] : \A i \in 1 .. n - 1 : ts[i] <= ts[i + 1]}

WinSeries ==
    {Segment(Rows2(ts, [i \in 1 .. Len(ts) |-> R(i)])) :
        ts \in OrderedTimes(WinRows - 1) \cup OrderedTimes(WinRows)}

\* a short second segment
WinSecond == Segment(Rows2(<<0, 1, 3>>, <<R(2), R(0), R(1)>>))

WinData == {Dataset(<<S>>) : S \in WinSeries}
               \cup {Dataset(<<S, WinSecond>>) : S \in {X \in WinSeries : X.n_rows < WinRows}}

\* one shared table of filter widths at the times 0, 2 and WinTime
WidthTable(w) ==
    [n_segments |-> 1,
     segment |-> (0 :> [n_rows |-> 3, ft |-> ArrR(<<0, 2, WinTime>>), fw |-> ArrR(w)])]

WinFixed ==
    {[New_Ctrl EXCEPT !.F_filter = f, !.F_width = R(w), !.E_active = e] :
        f \in {"b", "m"}, w \in {1, 4}, e \in BOOLEAN}

\* -T<min>/<max>/<inc> is refused when max - min < the filter width
WinFixedAtTime ==
    {[C EXCEPT !.T_active = TRUE, !.T_set = 3, !.T_min = R(0), !.T_max = R(WinTime),
               !.T_inc = R(1)] :
        C \in {X \in WinFixed : Le(X.F_width, R(WinTime))}}

WinVariable ==
    {[New_Ctrl EXCEPT !.F_filter = f, !.F_variable = TRUE, !.F_table = WidthTable(w),
                      !.E_active = TRUE, !.T_active = TRUE, !.T_set = 3,
                      !.T_min = R(0), !.T_max = R(WinTime), !.T_inc = R(inc)] :
        f \in {"b", "m"}, w \in [1 .. 3 -> {2, 8}], inc \in {1}}

InitWindow ==
    \E C \in WinFixed \cup WinFixedAtTime \cup WinVariable, data \in WinData :
        InitWith(C, data)

SpecWindow == InitWindow /\ [][Next]_vars

\* the rows a scan of the whole series finds within half_width of the time
\* of the last point, a tie being inside unless the tolerance is negative
RescanWindow ==
    {r \in 0 .. F.n_rows - 1 :
        \/ Lt(fabs(Sub(F.data[F.t_col][r], pt.t_time)), F.half_width)
        \/ (fabs(Sub(F.data[F.t_col][r], pt.t_time)) = F.half_width
            /\ Ge(loc.small, R(0)))}

\* the window of the last point was looked at
WindowTaken == pc = "loop" /\ pt.branch \in {"filtered", "nothing"}

\* C1: at every output time for which the loop forms a window, the rows
\* left .. right-1 are exactly the rows of the series whose time lies
\* within half_width of the output time, for a fixed and for a variable
\* filter width.
C1_WindowIsRescan ==
    WindowTaken => {r \in 0 .. F.n_rows - 1 : pt.left <= r /\ r < pt.right} = RescanWindow

\* C2: within a segment neither window pointer decreases from one pass of
\* the loop to the next, whether the point is filtered or skipped, and the
\* loop of every segment is entered with both pointers at 0.
C2_PointersNeverDecrease ==
    [][ /\ (pc = "loop" /\ pc' = "loop")
            => (loc'.left >= loc.left /\ loc'.right >= loc.right)
        /\ (pc = "begin" /\ pc' = "loop") => (loc'.left = 0 /\ loc'.right = 0) ]_vars

\* the loop of the second segment after a point was skipped with the
\* pointers already advanced
C2_Witness ==
    /\ seg = 1
    /\ pc = "loop"
    /\ pt.branch = "nothing"
    /\ loc.left > 0

(***************************************************************************)
(* The boxcar on irregular series: strictly increasing times, values with  *)
(* at most one NaN, output at the input times, with or without -D and -E.  *)
(***************************************************************************)
BoxRows == 4

BoxTime == 4

\* the tuples of n strictly increasing times in 0 .. BoxTime
IncreasingTimes(n) ==
    {ts \in [1 .. n -> 0 .. BoxTime] : \A i \in 1 .. n - 1 : ts[i] < ts[i + 1]}

\* values i*i, all present or with a NaN in row p
GappyValues(n) ==
    {[i \in 1 .. n |-> IF i = p THEN d_NaN ELSE R(i * i)] : p \in 0 .. n}

BoxSeries ==
    UNION {{Segment(Rows2(ts, vs)) : ts \in IncreasingTimes(n), vs \in GappyValues(n)} :
              n \in 2 .. BoxRows}

BoxCtrl ==
    {[New_Ctrl EXCEPT !.F_filter = "b", !.F_width = R(w), !.E_active = e,
                      !.D_active = inc > 0, !.D_inc = R(inc)] :
        w \in 1 .. BoxTime, e \in BOOLEAN, inc \in 0 .. 2}

InitBoxcar == \E C \in BoxCtrl, S \in BoxSeries : InitWith(C, Dataset(<<S>>))

SpecBoxcar == InitBoxcar /\ [][Next]_vars

\* the rows of segment S whose value in column c is present and whose time
\* is within hw of T
RowsWithin(S, c, T, hw) ==
    {r \in 0 .. S.n_rows - 1 :
        ~is_dnan(S.data[c][r]) /\ Le(fabs(Sub(S.data[0][r], T)), hw)}

\* the sum of column c of S over the rows in rs
RECURSIVE SumOver(_, _, _)
SumOver(S, c, rs) ==
    IF rs = {} THEN R(0)
    ELSE Add(S.data[c][CHOOSE r \in rs : TRUE],
             SumOver(S, c, rs \ {CHOOSE r \in rs : TRUE}))

\* the arithmetic mean of the present samples of column c within W/2 of T
MeanWithin(S, c, T, W) ==
    Div(SumOver(S, c, RowsWithin(S, c, T, Div(W, R(2)))),
        R(Cardinality(RowsWithin(S, c, T, Div(W, R(2))))))

\* the last pass of the loop wrote a record
RecordWritten == pc = "loop" /\ pt.branch = "filtered" /\ pt.emitted

\* the value written for a passing column is the mean of the samples within W/2
ValueIsMean ==
    \A c \in Cols(F) :
        pt.good_one[c] =>
            out[Len(out)].data[c] = MeanWithin(D.segment[seg], c, pt.t_time, Ctrl.F_width)

\* every time of the series is a whole number of steps dt from the first
OnGrid ==
    \A r \in 0 .. F.n_rows - 1 :
        Div(Sub(F.data[F.t_col][r], F.data[F.t_col][0]), F.dt)[2] = 1

\* C4 as stated: for strictly increasing, possibly irregular times and a
\* lowpass boxcar of width W without gates, the value written at an input
\* time T is the mean of the present samples with |time - T| <= W/2.
C4_BoxcarMean == RecordWritten => ValueIsMean

\* C4 amended: the same, for series whose times are all a whole number of
\* time steps dt apart (dt the -D increment, or the mean spacing without -D).
C4_BoxcarMeanOnGrid == (RecordWritten /\ OnGrid) => ValueIsMean

\* an irregular series on the grid of -D, a window holding a NaN and at
\* least two present samples, and a record written
C4_Witness ==
    /\ RecordWritten
    /\ OnGrid
    /\ Ctrl.D_active
    /\ \E r \in 1 .. F.n_rows - 2 :
          Sub(F.data[0][r + 1], F.data[0][r]) # Sub(F.data[0][r], F.data[0][r - 1])
    /\ \E r \in pt.left .. pt.right - 1 : is_dnan(F.data[1][r])
    /\ Cardinality(RowsWithin(D.segment[seg], 1, pt.t_time, F.half_width)) >= 2

(***************************************************************************)
(* The gates: a time column and two data columns, the first with at most   *)
(* one NaN and the second complete or empty; boxcar, robust boxcar,        *)
(* median, mode and minimum filters with the lack, symmetry and quality    *)
(* checks, output at the input times with the ends kept.                   *)
(***************************************************************************)
GateTime == 4

\* rows <<time, value, value>>
Rows3(ts, vs, ws) == [i \in 1 .. Len(ts) |-> <<R(ts[i]), vs[i], ws[i]>>]

\* the times of the lack-of-data scenario
LackScenarioTimes == <<0, 1, 2, 10, 11>>

GateTimes ==
    {LackScenarioTimes}
        \cup {ts \in [1 .. 3 -> 0 .. GateTime] : ts[1] < ts[2] /\ ts[2] < ts[3]}

GateSeries ==
    {Segment(Rows3(ts, [i \in 1 .. Len(ts) |-> IF i = p THEN d_NaN ELSE R(i * i)],
                   [i \in 1 .. Len(ts) |-> IF e THEN d_NaN ELSE R(i)])) :
        ts \in GateTimes, p \in 0 .. 5, e \in BOOLEAN}

\* the checks that are switched on together; -L is refused when the lack
\* width exceeds the filter width
GateOptions ==
    {[L |-> l, S |-> sc, Q |-> q] :
        l \in {0, 5, 9}, sc \in {R(-1), Rat(1, 2), R(1)}, q \in {0, 1}}

GateCtrlAll ==
    {[New_Ctrl EXCEPT !.F_filter = f, !.F_width = R(w), !.E_active = TRUE,
                      !.L_active = g.L > 0, !.L_value = R(g.L),
                      !.S_active = g.S # R(-1), !.S_value = g.S,
                      !.Q_active = g.Q > 0, !.Q_value = R(g.Q)] :
        f \in {"b", "B", "m", "p", "l"}, w \in {2, 22},
        g \in {o \in GateOptions : o.L = 0 \/ (o.S = R(-1) /\ o.Q = 0)}}

GateCtrl == {C \in GateCtrlAll : ~C.L_active \/ Le(C.L_value, C.F_width)}

InitGate == \E C \in GateCtrl, S \in GateSeries : InitWith(C, Dataset(<<S>>))

SpecGate == InitGate /\ [][Next]_vars

\* the data columns
DataCols == Cols(F) \ {F.t_col}

\* the rows of the window of the last point where column c has a value
PresentRows(c) == {r \in pt.left .. pt.right - 1 : ~is_dnan(F.data[c][r])}

\* two present samples of column c in the window, with no present sample
\* between them, lie more than lack_width apart
GapTooWide(c) ==
    \E r1, r2 \in PresentRows(c) :
        /\ r1 < r2
        /\ \A r \in PresentRows(c) : ~(r1 < r /\ r < r2)
        /\ Gt(Sub(F.data[F.t_col][r2], F.data[F.t_col][r1]), F.lack_width)

\* the window holds the five samples of the scenario, all present in column 1
LackScenarioWindow ==
    /\ D.segment[seg].n_rows = 5
    /\ [i \in 1 .. 5 |-> D.segment[seg].data[0][i - 1]]
          = [i \in 1 .. 5 |-> R(LackScenarioTimes[i])]
    /\ PresentRows(1) = 0 .. 4

\* C5: where the lack check is made, a column is rejected exactly when two
\* consecutive present samples of it in the window are more than lack_width
\* apart; the window with present samples at 0 1 2 10 11 is rejected for
\* lack_width 5 and passes for lack_width 9.
C5_LackGate ==
    (pc = "loop" /\ pt.branch = "filtered" /\ F.check_lack) =>
        /\ \A c \in DataCols : ~pt.good_lack[c] <=> GapTooWide(c)
        /\ (LackScenarioWindow /\ F.lack_width = R(5)) => ~pt.good_lack[1]
        /\ (LackScenarioWindow /\ F.lack_width = R(9)) => pt.good_lack[1]

\* the present samples of column c in the window before (-1) or after (1) the time
SideCount(c, side) ==
    Cardinality({r \in PresentRows(c) :
                    IF side < 0 THEN Lt(F.data[F.t_col][r], pt.t_time)
                    ELSE Gt(F.data[F.t_col][r], pt.t_time)})

\* |n_l - n_r| / (n_l + n_r) > sym_coeff, in whole numbers
TooAsymmetric(n_l, n_r) ==
    /\ n_l + n_r > 0
    /\ AbsI(n_l - n_r) * F.sym_coeff[2] > F.sym_coeff[1] * (n_l + n_r)

\* column c was rejected at the last point after it passed the lack check
RejectedAfterLack(c) ==
    IF UsesWork(F) THEN ~pt.good_robust[c] ELSE ~pt.good_one[c]

\* C6: with the symmetry check on (and no quality check), a column that has
\* present samples in the window and reaches the gate is rejected exactly
\* when |n_left - n_right| / (n_left + n_right) > sym_coeff, n_left and
\* n_right being its present window samples before and after the output
\* time, in the robust and order-statistic pass and in the plain
\* convolution pass alike.
C6_AsymmetryGate ==
    (pc = "loop" /\ pt.branch = "filtered" /\ F.check_asym /\ ~F.check_q) =>
        \A c \in DataCols :
            (pt.good_lack[c] /\ PresentRows(c) # {}) =>
                (RejectedAfterLack(c) <=> TooAsymmetric(SideCount(c, -1), SideCount(c, 1)))

\* C8: at every point that is filtered, whatever the filter and the gates,
\* a data column without a present sample in the window fails, is not
\* counted among the passing columns and is written as NaN.
C8_EmptyColumnFails ==
    (pc = "loop" /\ pt.branch = "filtered") =>
        \A c \in DataCols :
            PresentRows(c) = {} =>
                /\ ~pt.good_one[c]
                /\ pt.emitted => is_dnan(out[Len(out)].data[c])

\* C9: a record is written only if a data column passes; no record has NaN
\* in every data column; every failing column of a record holds NaN.
C9_NoAllNaNRecord ==
    (pc = "loop" /\ pt.branch = "filtered") =>
        /\ pt.emitted <=> (\E c \in DataCols : pt.good_one[c])
        /\ pt.emitted =>
              /\ \E c \in DataCols : ~is_dnan(out[Len(out)].data[c])
              /\ \A c \in DataCols : ~pt.good_one[c] => is_dnan(out[Len(out)].data[c])

(***************************************************************************)
(* The custom filter: two or three coefficients read from a table, series  *)
(* with strictly increasing whole times on the grid of -D1 and at most one *)
(* NaN value, output at the input times.                                   *)
(***************************************************************************)
CusTime == 3

\* the values a coefficient may have
CusWeights == {-1, 1, 2}

\* the coefficient tables of two and of three rows
CusTables ==
    UNION {{[n_records |-> m, coef |-> [i \in 0 .. m - 1 |-> R(w[i])]] :
               w \in [0 .. m - 1 -> CusWeights]} : m \in 2 .. 3}

CusSeries ==
    UNION {{Segment(Rows2(ts, [i \in 1 .. n |-> IF i = p THEN d_NaN ELSE R(i * i)])) :
               ts \in {x \in [1 .. n -> 0 .. CusTime] : \A i \in 1 .. n - 1 : x[i] < x[i + 1]},
               p \in 0 .. n} : n \in 2 .. CusTime + 1}

InitCustom ==
    \E tb \in CusTables, S \in CusSeries, e \in BOOLEAN :
        InitWith([New_Ctrl EXCEPT !.F_filter = "f", !.F_width = R(DBL_MAX),
                      !.F_table = tb, !.E_active = e,
                      !.D_active = TRUE, !.D_inc = R(1)],
                 Dataset(<<S>>))

SpecCustom == InitCustom /\ [][Next]_vars

\* the sum of the first n coefficients of the table as it was read
RECURSIVE CoefSum(_)
CoefSum(n) ==
    IF n = 0 THEN R(0) ELSE Add(CoefSum(n - 1), Ctrl.F_table.coef[n - 1])

\* the position in the table of the coefficient for row r at the last point:
\* the middle of the table plus the whole number of steps from r to the time
TapOf(r) ==
    Ctrl.F_table.n_records \div 2
        + Sub(pt.t_time, D.segment[seg].data[0][r])[1]

\* the rows that contribute to column c at the last point
TapRows(c) ==
    {r \in pt.left .. pt.right - 1 :
        /\ ~is_dnan(D.segment[seg].data[c][r])
        /\ TapOf(r) \in 0 .. Ctrl.F_table.n_records - 1}

\* sum(w_i * x_i) and sum(w_i) of column c over the rows in rs
RECURSIVE TapSums(_, _)
TapSums(c, rs) ==
    IF rs = {} THEN [wx |-> R(0), w |-> R(0)]
    ELSE [wx |-> Add(Mul(Ctrl.F_table.coef[TapOf(CHOOSE r \in rs : TRUE)],
                         D.segment[seg].data[c][CHOOSE r \in rs : TRUE]),
                     TapSums(c, rs \ {CHOOSE r \in rs : TRUE}).wx),
          w |-> Add(Ctrl.F_table.coef[TapOf(CHOOSE r \in rs : TRUE)],
                    TapSums(c, rs \ {CHOOSE r \in rs : TRUE}).w)]

OrdTime == 3

\* rows <<value, value, time>>; row p has no time
OrdSeries ==
    UNION {{Segment([i \in 1 .. n |->
                        <<R(i), R(i * i), IF i = p THEN d_NaN ELSE R(ts[i])>>]) :
               ts \in {x \in [1 .. n -> 0 .. OrdTime] : \A i \in 1 .. n - 1 : x[i] <= x[i + 1]},
               p \in 0 .. n} : n \in 2 .. 3}

\* one segment, or two segments of two rows each
OrdData ==
    {Dataset(<<S>>) : S \in OrdSeries}
        \cup {Dataset(<<S1, S2>>) :
                 S1 \in {S \in OrdSeries : S.n_rows = 2},
                 S2 \in {S \in OrdSeries : S.n_rows = 2 /\ S.data[2][0] = R(0)}}

OrdCtrl ==
    {[New_Ctrl EXCEPT !.F_filter = f, !.F_width = R(w), !.E_active = e, !.N_col = 2,
                      !.T_active = at, !.T_set = IF at THEN 3 ELSE 0,
                      !.T_min = R(0), !.T_max = R(IF at THEN OrdTime ELSE 0),
                      !.T_inc = R(IF at THEN 1 ELSE 0)] :
        f \in {"b", "m"}, w \in {2, 4}, e \in BOOLEAN, at \in BOOLEAN}

InitOrder == \E C \in OrdCtrl, data \in OrdData : InitWith(C, data)

SpecOrder == InitOrder /\ [][Next]_vars

\* C10: of two records of one segment that follow each other the later one
\* belongs to a later entry of the output plan and does not have an earlier
\* time, and a segment never has more records than its plan has times.
C10_RecordsInPlanOrder ==
    /\ \A i \in 1 .. Len(out) - 1 :
          out[i].seg = out[i + 1].seg =>
              /\ out[i].k < out[i + 1].k
              /\ Le(out[i].data[F.t_col], out[i + 1].data[F.t_col])
    /\ pc = "loop" => Cardinality({i \in 1 .. Len(out) : out[i].seg = seg}) <= F.T.n

(***************************************************************************)
(* A filter width interpolated from a table that the interpolation may     *)
(* refuse: a table of one row, or one whose times do not increase.         *)
(***************************************************************************)
IntTime == 3

\* width tables <<times, widths>>: two that interpolate, two that do not
IntTables == {<<<<0, 2, IntTime>>, <<2, 2, 4>>>>, <<<<0, IntTime>>, <<4, 2>>>>,
              <<<<1>>, <<2>>>>, <<<<0, 2, 1>>, <<2, 2, 2>>>>}

\* the file of -F<type><file>: one segment of rows <<time, width>>
IntWidthFile(tw) ==
    [n_segments |-> 1,
     segment |-> (0 :> [n_rows |-> Len(tw[1]), ft |-> ArrR(tw[1]), fw |-> ArrR(tw[2])])]

IntSeries ==
    {Segment(Rows2(ts, [i \in 1 .. 3 |-> R(i * i)])) :
        ts \in {x \in [1 .. 3 -> 0 .. IntTime] : x[1] <= x[2] /\ x[2] <= x[3]}}

IntCtrl ==
    {[New_Ctrl EXCEPT !.F_filter = f, !.F_variable = TRUE, !.F_table = IntWidthFile(tw),
                      !.E_active = TRUE, !.T_active = at, !.T_set = IF at THEN 3 ELSE 0,
                      !.T_max = IF at THEN R(IntTime) ELSE R(0),
                      !.T_inc = IF at THEN R(1) ELSE R(0)] :
        f \in {"b", "m"}, tw \in IntTables, at \in BOOLEAN}

InitIntpol == \E C \in IntCtrl, S \in IntSeries : InitWith(C, Dataset(<<S>>))

SpecIntpol == InitIntpol /\ [][Next]_vars

\* C11: every pass of the loop over the output times moves on to the next
\* output index, also the pass in which the interpolation of the filter
\* width fails, so that no output index is visited twice and the loop ends.
C11_FailedPointIsSkipped ==
    [][(pc = "loop" /\ pc' = "loop" /\ seg' = seg) => loc'.k = loc.k + 1]_vars

(***************************************************************************)
(* Loading: one or two segments whose times come in any order, NaN         *)
(* included; a boxcar or a median of width 2 at the input times, -D1 -E.   *)
(***************************************************************************)
LoadTime == 2

\* what a time cell of the input may hold
LoadTimes == {R(t) : t \in 0 .. LoadTime} \cup {d_NaN}

\* the segments of n rows <<time, value>>
LoadSeries(n) ==
    {Segment([i \in 1 .. n |-> <<ts[i], R(i)>>]) : ts \in [1 .. n -> LoadTimes]}

LoadData ==
    {Dataset(<<S>>) : S \in LoadSeries(3)}
        \cup {Dataset(<<S1, S2>>) : S1 \in LoadSeries(2), S2 \in LoadSeries(3)}

LoadCtrl ==
    {[New_Ctrl EXCEPT !.F_filter = f, !.F_width = R(2), !.E_active = TRUE,
                      !.D_active = TRUE, !.D_inc = R(1)] : f \in {"b", "m"}}

InitLoad == \E C \in LoadCtrl, data \in LoadData : InitWith(C, data)

SpecLoad == InitLoad /\ [][Next]_vars

\* the times of segment S decrease somewhere: a row's time is less than the
\* time of the nearest row before it that has a time
Decreases(S) ==
    \E i, j \in 0 .. S.n_rows - 1 :
        /\ i < j
        /\ ~is_dnan(S.data[0][i])
        /\ ~is_dnan(S.data[0][j])
        /\ \A m \in i + 1 .. j - 1 : is_dnan(S.data[0][m])
        /\ Lt(S.data[0][j], S.data[0][i])

\* the run has stopped on a fatal condition
Aborted == pc = "abort"

\* C12 as stated: when the run aborts on a fatal condition in some segment,
\* no record at all has been written, also none of an earlier segment.
C12_NoOutputAfterAbort == Aborted => out = <<>>

\* C12 as the code has it: a segment whose times decrease is never filtered,
\* and when the run aborts in segment seg every record written belongs to a
\* segment before seg, none to seg itself.
C12_NoOutputOfFaultySegment ==
    /\ \A i \in 1 .. Len(out) : ~Decreases(D.segment[out[i].seg])
    /\ Aborted => \A i \in 1 .. Len(out) : out[i].seg < seg

\* the run aborted in the second segment after records of the first
C12_Witness == Aborted /\ seg = 1 /\ Len(out) > 0

\* C13: loading segment seg aborts exactly when its times decrease
\* (strictly, from the nearest earlier row that has a time); a segment of
\* equal times or one that starts before the end of the segment before it
\* is loaded; after the abort no record of the segment exists.
C13_AbortIffTimeDecreases ==
    /\ Aborted => Decreases(D.segment[seg])
    /\ pc \in {"setup", "begin", "loop", "undefined"} => ~Decreases(D.segment[seg])
    /\ Aborted => \A i \in 1 .. Len(out) : out[i].seg # seg

\* the second segment was loaded though it starts before the end of the
\* first and repeats a time across a row without a time
C13_Witness ==
    /\ seg = 1
    /\ pc = "setup"
    /\ Lt(D.segment[1].data[0][0], D.segment[0].data[0][1])
    /\ is_dnan(D.segment[1].data[0][1])
    /\ D.segment[1].data[0][2] = D.segment[1].data[0][0]

(***************************************************************************)
(* Highpass: a boxcar or a median with +h, ends kept, at the input times   *)
(* or at the equidistant times 0, 1 .. HighTime.                           *)
(***************************************************************************)
HighTime == 4

HighSeries ==
    {Segment(Rows2(ts, [i \in 1 .. 3 |-> R(i * i)])) :
        ts \in {x \in [1 .. 3 -> 0 .. HighTime] : x[1] < x[2] /\ x[2] < x[3]}}

HighCtrl ==
    {[New_Ctrl EXCEPT !.F_filter = f, !.F_width = R(2), !.F_highpass = TRUE,
                      !.E_active = TRUE, !.T_active = at, !.T_set = IF at THEN 3 ELSE 0,
                      !.T_max = IF at THEN R(HighTime) ELSE R(0),
                      !.T_inc = IF at THEN R(1) ELSE R(0)] :
        f \in {"b", "m"}, at \in BOOLEAN}

InitHigh == \E C \in HighCtrl, S \in HighSeries : InitWith(C, Dataset(<<S>>))

SpecHigh == InitHigh /\ [][Next]_vars

\* the lowpass value of column c at the last point
LowpassOf(c) ==
    IF F.filter_type > FILTER1D_CONVOLVE THEN F.this_loc[c]
    ELSE IF F.f_operator THEN pt.data_sum[c]
    ELSE Div(pt.data_sum[c], pt.wt_sum[c])

\* C14: a record written by a highpass filter comes from an output index
\* that is a row of the segment, the time of that row is the output time,
\* and every passing column holds the sample of that row minus the lowpass
\* value, at the input times and at resampled times alike.
C14_HighpassSubtractsFromRowAtTime ==
    (pc = "loop" /\ pt.branch = "filtered" /\ pt.emitted /\ F.highpass) =>
        /\ pt.k < F.n_rows
        /\ F.data[F.t_col][pt.k] = pt.t_time
        /\ \A c \in DataCols :
               pt.good_one[c] =>
                   out[Len(out)].data[c] = Sub(D.segment[seg].data[c][pt.k], LowpassOf(c))

(***************************************************************************)
(* Several segments in one run: a segment is filtered first and again      *)
(* last, after itself or after another segment; fixed and interpolated     *)
(* widths, output at the input times and at equidistant times.             *)
(***************************************************************************)
SegTime == 3

SegSeries ==
    {Segment(Rows2(ts, [i \in 1 .. 3 |-> R(i * i)])) :
        ts \in {x \in [1 .. 3 -> 0 .. SegTime] : x[1] <= x[2] /\ x[2] <= x[3]}}

\* the segments filtered in between: a longer and a shorter one
SegBetween ==
    {Segment(Rows2(<<1, 2, 4, 6>>, <<R(5), R(1), R(3), R(2)>>)),
     Segment(Rows2(<<2, 3>>, <<R(7), R(1)>>))}

SegData ==
    {Dataset(<<S, S>>) : S \in SegSeries}
        \cup {Dataset(<<S, X, S>>) : S \in SegSeries, X \in SegBetween}

\* one shared table of widths: 2 from time 0 to time SegTime
SegWidthFile ==
    [n_segments |-> 1,
     segment |-> (0 :> [n_rows |-> 2, ft |-> ArrR(<<0, SegTime>>), fw |-> ArrR(<<2, 2>>)])]

SegCtrl ==
    {[New_Ctrl EXCEPT !.F_filter = f, !.F_width = IF v THEN R(0) ELSE R(2),
                      !.F_variable = v, !.F_table = IF v THEN SegWidthFile ELSE <<>>,
                      !.E_active = e, !.T_active = at, !.T_set = IF at THEN 3 ELSE 0,
                      !.T_max = IF at THEN R(SegTime) ELSE R(0),
                      !.T_inc = IF at THEN R(1) ELSE R(0)] :
        f \in {"b", "m", "p"}, v \in BOOLEAN, e \in BOOLEAN, at \in BOOLEAN}

InitSegs == \E C \in SegCtrl, data \in SegData : InitWith(C, data)

SpecSegs == InitSegs /\ [][Next]_vars

\* the records of segment s in the order written: output index and values
RecordsOf(s) ==
    LET sel == SelectSeq(out, LAMBDA r : r.seg = s)
    IN  [i \in 1 .. Len(sel) |-> <<sel[i].k, sel[i].data>>]

\* C15: the records of a segment depend on that segment and the filter
\* only: when a run ends whose last segment is equal to its first, the
\* records written for the two are the same, whatever was filtered between.
C15_SegmentsIndependent ==
    (pc = "done" /\ D.segment[D.n_segments - 1] = D.segment[0]) =>
        RecordsOf(D.n_segments - 1) = RecordsOf(0)

(***************************************************************************)
(* The gate decision of one output point, over the runs of SpecGate.       *)
(***************************************************************************)
\* the symmetry check is on and rejects the counts of column c
SymmetryRejects(c) ==
    F.check_asym /\ TooAsymmetric(pt.n_left[c], pt.n_right[c])

\* the quality check is on and rejects column c
QualityRejects(c) ==
    /\ F.check_q
    /\ IF F.filter_type > FILTER1D_CONVOLVE
       THEN pt.n_this_col[c] < lrint(F.q_factor)
       ELSE pt.n_this_col[c] > 0
            /\ Lt(Div(pt.wt_sum[c], R(pt.n_this_col[c])), F.q_factor)

\* the convolution found no sample of column c to use
NoSampleUsed(c) == F.filter_type <= FILTER1D_CONVOLVE /\ pt.n_this_col[c] = 0

\* C16: at every filtered point the decision on a data column is the
\* conjunction of the checks that are switched on (and of the test for a
\* column without samples): a lack, symmetry or quality check that is off
\* rejects nothing, a column rejected at one stage is not accepted at a
\* later one, and the time column is never among the passing columns.
C16_EnabledChecksOnly ==
    (pc = "loop" /\ pt.branch = "filtered") =>
        /\ \A c \in DataCols :
              /\ ~F.check_lack => pt.good_lack[c]
              /\ pt.good_robust[c] => pt.good_lack[c]
              /\ pt.good_one[c] => pt.good_robust[c]
              /\ pt.good_one[c] <=>
                    /\ pt.good_lack[c]
                    /\ ~SymmetryRejects(c)
                    /\ ~QualityRejects(c)
                    /\ ~NoSampleUsed(c)
        /\ ~pt.good_lack[F.t_col] /\ ~pt.good_robust[F.t_col] /\ ~pt.good_one[F.t_col]
        /\ pt.n_good_ones = Cardinality({c \in DataCols : pt.good_one[c]})

\* a point with the lack and quality checks off where a column with a
\* missing sample is rejected by the symmetry check and another is written
C16_Witness ==
    /\ pc = "loop" /\ pt.branch = "filtered" /\ pt.emitted
    /\ ~F.check_lack /\ ~F.check_q /\ F.check_asym
    /\ \E c \in DataCols :
          /\ PresentRows(c) # pt.left .. pt.right - 1
          /\ pt.good_lack[c] /\ ~pt.good_one[c]

(***************************************************************************)
(* The quality check: cosine, boxcar, robust cosine, median and minimum    *)
(* filters of width 2 and 4 with -Q off, 1/2 or 1 and -S off or 1/2, on    *)
(* three rows with a time column and two data columns, ends kept.          *)
(***************************************************************************)
QualTime == 4

QualSeries ==
    {Segment(Rows3(ts, [i \in 1 .. 3 |-> IF i = p THEN d_NaN ELSE R(i * i)],
                   [i \in 1 .. 3 |-> IF e THEN d_NaN ELSE R(i)])) :
        ts \in {x \in [1 .. 3 -> 0 .. QualTime] : x[1] < x[2] /\ x[2] < x[3]},
        p \in 0 .. 3, e \in BOOLEAN}

QualCtrl ==
    {[New_Ctrl EXCEPT !.F_filter = f, !.F_width = R(w), !.E_active = TRUE,
                      !.S_active = sc # R(-1), !.S_value = sc,
                      !.Q_active = q # R(-1), !.Q_value = q] :
        f \in {"b", "c", "C", "m", "l"}, w \in {2, 4},
        sc \in {R(-1), Rat(1, 2)}, q \in {R(-1), Rat(1, 2), R(1)}}

InitQual == \E C \in QualCtrl, S \in QualSeries : InitWith(C, Dataset(<<S>>))

SpecQual == InitQual /\ [][Next]_vars

\* the rows of the window whose sample of column c enters the convolution
UsedRows(c) ==
    {r \in PresentRows(c) : ~IndexOutside(F, WeightIndex(F, pt.t_time, r))}

\* the sum of the weights given to the rows in rs
RECURSIVE WeightsOver(_)
WeightsOver(rs) ==
    IF rs = {} THEN R(0)
    ELSE Add(F.f_wt[WeightIndex(F, pt.t_time, CHOOSE r \in rs : TRUE)],
             WeightsOver(rs \ {CHOOSE r \in rs : TRUE}))

\* column c reaches the quality test of the last point
ReachesQuality(c) ==
    /\ pt.good_lack[c]
    /\ ~SymmetryRejects(c)
    /\ F.filter_type > FILTER1D_CONVOLVE \/ UsedRows(c) # {}

\* C17: a column that reaches the quality test fails it, with -Q on and a
\* median, mode or extreme filter, exactly when it has fewer present window
\* samples than q_factor rounded to the nearest whole number (ties to the
\* even one), and with a convolution filter exactly when the sum of the
\* weights used divided by the number of samples used is below q_factor;
\* with -Q off it passes.
C17_QualityCheck ==
    (pc = "loop" /\ pt.branch = "filtered") =>
        \A c \in DataCols :
            ReachesQuality(c) =>
                IF ~F.check_q THEN pt.good_one[c]
                ELSE IF F.filter_type > FILTER1D_CONVOLVE
                THEN ~pt.good_one[c] <=> Cardinality(PresentRows(c)) < lrint(F.q_factor)
                ELSE ~pt.good_one[c] <=>
                        Lt(Div(WeightsOver(UsedRows(c)), R(Cardinality(UsedRows(c)))),
                           F.q_factor)

\* a cosine filter rejects a column whose centre sample is missing for its
\* mean weight while the other column is written
C17_Witness ==
    /\ pc = "loop" /\ pt.branch = "filtered" /\ pt.emitted
    /\ F.check_q /\ F.filter_type = FILTER1D_COS_ARCH
    /\ \E c \in DataCols :
          /\ ReachesQuality(c)
          /\ ~pt.good_one[c]
          /\ Gt(WeightsOver(UsedRows(c)), R(0))

(***************************************************************************)
(* Points that are left at the window test: boxcar, robust boxcar and      *)
(* median filters of width 2, fixed or read from a table, with -L off, 1   *)
(* or 2, output at the input times or at 0, 1, .. SkipTime, ends kept.     *)
(***************************************************************************)
SkipTime == 5

SkipSeries ==
    {Segment(Rows2(ts, [i \in 1 .. 3 |-> R(i * i)])) :
        ts \in {x \in [1 .. 3 -> 0 .. SkipTime] : x[1] <= x[2] /\ x[2] <= x[3]}}

SkipWidthFile ==
    [n_segments |-> 1,
     segment |-> (0 :> [n_rows |-> 2, ft |-> ArrR(<<0, SkipTime>>), fw |-> ArrR(<<2, 2>>)])]

SkipCtrl ==
    {[New_Ctrl EXCEPT !.F_filter = f, !.F_variable = v,
                      !.F_width = IF v THEN R(0) ELSE R(2),
                      !.F_table = IF v THEN SkipWidthFile ELSE <<>>,
                      !.E_active = TRUE,
                      !.L_active = l > 0, !.L_value = R(l),
                      !.T_active = at, !.T_set = IF at THEN 3 ELSE 0,
                      !.T_min = R(0),
                      !.T_max = IF at THEN R(SkipTime) ELSE R(0),
                      !.T_inc = IF at THEN R(1) ELSE R(0)] :
        f \in {"b", "B", "m"}, v \in BOOLEAN, l \in 0 .. 2, at \in BOOLEAN}

InitSkip == \E C \in SkipCtrl, S \in SkipSeries : InitWith(C, Dataset(<<S>>))

SpecSkip == InitSkip /\ [][Next]_vars

\* the window [left, right) holds no row, or the lack check is on and the
\* filter width exceeds lack_width times the number of rows
FlaggedWindow(G, left, right) ==
    \/ right <= left
    \/ G.check_lack /\ Gt(G.filter_width, Mul(G.lack_width, R(right - left)))

\* a pass of the output loop that got as far as the window test
WindowTested ==
    /\ pc = "loop" /\ loc.k <= loc.last_k /\ pc' = "loop"
    /\ pt'.branch \in {"nothing", "filtered"}

KerTime == 4

KerSeries ==
    UNION {{Segment(Rows2(ts, [i \in 1 .. n |-> R(i * i)])) :
               ts \in {x \in [1 .. n -> 0 .. KerTime] : \A i \in 1 .. n - 1 : x[i] < x[i + 1]}} :
           n \in 2 .. 4}

KerWidthFile ==
    [n_segments |-> 1,
     segment |-> (0 :> [n_rows |-> 2, ft |-> ArrR(<<0, KerTime>>), fw |-> ArrR(<<2, 2 + KerTime>>)])]

KerOptions == {[E |-> e, D |-> d] : e, d \in BOOLEAN}

KerBuiltIn ==
    {[New_Ctrl EXCEPT !.F_filter = f, !.F_variable = w = 0,
                      !.F_width = R(w),
                      !.F_table = IF w = 0 THEN KerWidthFile ELSE <<>>,
                      !.E_active = o.E, !.D_active = o.D,
                      !.D_inc = IF o.D THEN R(1) ELSE R(0)] :
        f \in {"b", "c", "g"}, w \in 0 .. KerTime, o \in {x \in KerOptions : x.D}} \cup
    {[New_Ctrl EXCEPT !.F_filter = "b", !.F_width = R(w), !.E_active = e] :
        w \in 1 .. KerTime, e \in BOOLEAN}

KerCustom ==
    {[New_Ctrl EXCEPT !.F_filter = "f", !.F_width = R(DBL_MAX), !.F_table = tb,
                      !.E_active = o.E, !.D_active = o.D,
                      !.D_inc = IF o.D THEN R(1) ELSE R(0)] :
        tb \in CusTables, o \in KerOptions}

InitKernel ==
    \E C \in KerBuiltIn \cup KerCustom, S \in KerSeries : InitWith(C, Dataset(<<S>>))

SpecKernel == InitKernel /\ [][Next]_vars

\* filter1d_set_up_filter has built the coefficients F holds
CoefficientsSet ==
    /\ pc \in {"begin", "loop"}
    /\ F.filter_type <= FILTER1D_CONVOLVE
    /\ F.variable => (pc = "loop" /\ pt.branch \in {"filtered", "nothing", "outside_window"})

\* the array has n_f_wts entries, an odd number, half_n_f_wts on each side
OddLength ==
    /\ F.n_f_wts = 2 * F.half_n_f_wts + 1
    /\ DOMAIN F.f_wt = 0 .. F.n_f_wts - 1

MirrorSymmetric ==
    \A i \in 0 .. F.half_n_f_wts :
        F.f_wt[F.half_n_f_wts - i] = F.f_wt[F.half_n_f_wts + i]

\* C19 as stated: every kind with a coefficient array, the custom one with
\* any number of rows included, has an array of odd length 2*half_n_f_wts+1,
\* and the built-in kernels are mirror-symmetric about the centre tap.
C19_OddLengthAllKinds ==
    CoefficientsSet =>
        /\ OddLength
        /\ F.filter_type # FILTER1D_CUSTOM => MirrorSymmetric

\* C19 amended: the boxcar, cosine and gaussian arrays have odd length
\* 2*half_n_f_wts+1 and are mirror-symmetric about the centre tap; the
\* custom array has one entry per row of the table and half_n_f_wts is half
\* that number rounded down, so its length is 2*half_n_f_wts+1 exactly when
\* the table has an odd number of rows.
C19_OddLengthBuiltIn ==
    CoefficientsSet =>
        IF F.filter_type # FILTER1D_CUSTOM
        THEN OddLength /\ MirrorSymmetric
        ELSE /\ F.n_f_wts = Ctrl.F_table.n_records
             /\ DOMAIN F.f_wt = 0 .. F.n_f_wts - 1
             /\ F.half_n_f_wts = F.n_f_wts \div 2
             /\ OddLength <=> F.n_f_wts % 2 = 1

\* a cosine kernel of five or more taps whose weights fall off from the centre
C19_Witness ==
    /\ CoefficientsSet
    /\ F.filter_type = FILTER1D_COS_ARCH
    /\ F.half_n_f_wts >= 2
    /\ Lt(F.f_wt[F.half_n_f_wts + 1], F.f_wt[F.half_n_f_wts])
    /\ Lt(F.f_wt[F.half_n_f_wts + 2], F.f_wt[F.half_n_f_wts + 1])

(***************************************************************************)
(* The output range at the input times, over the runs of SpecSegs.         *)
(***************************************************************************)
\* the time of row r of the segment being filtered
TimeOfRow(r) == D.segment[seg].data[0][r]

LastRow == D.segment[seg].n_rows - 1

\* the rows at least half_width after the first time, and before the last
FarFromFirst == {r \in 0 .. LastRow : Ge(Sub(TimeOfRow(r), TimeOfRow(0)), F.half_width)}

FarFromLast == {r \in 0 .. LastRow : Ge(Sub(TimeOfRow(LastRow), TimeOfRow(r)), F.half_width)}

\* filter1d_set_up_filter has run for the width that F holds
StartStopSet ==
    ~F.variable \/ pt.branch \in {"filtered", "nothing", "outside_window"}

\* C20: with output at the input times and the ends kept, t_start and
\* t_stop are the first and the last time of the segment and the output
\* loop starts with every row as a candidate, k = 0 and last_k = n_rows-1;
\* with the ends dropped, t_start is the time of the first row at least
\* half_width after the first time, t_stop that of the last row at least
\* half_width before the last time, and a record is written only for a row
\* that is at least half_width away from both.
C20_NativeStartStop ==
    (pc = "loop" /\ ~F.out_at_time) =>
        /\ (F.use_ends /\ StartStopSet) =>
              F.t_start = TimeOfRow(0) /\ F.t_stop = TimeOfRow(LastRow)
        /\ (F.use_ends /\ pt.branch = "none") =>
              loc.k = 0 /\ loc.last_k = LastRow
        /\ (~F.use_ends /\ StartStopSet /\ FarFromFirst # {}) =>
              /\ F.t_start = TimeOfRow(CHOOSE r \in FarFromFirst :
                                           \A q \in FarFromFirst : r <= q)
              /\ F.t_stop = TimeOfRow(CHOOSE r \in FarFromLast :
                                          \A q \in FarFromLast : q <= r)
        /\ (~F.use_ends /\ pt.branch = "filtered" /\ pt.emitted) =>
              pt.k \in FarFromFirst \cap FarFromLast

(***************************************************************************)
(* The output plan for -T<min>/<max>/<inc>: a boxcar or median filter of   *)
(* width 2, three rows at strictly increasing multiples of 1/2 up to       *)
(* PlanTime, a start of -1, 0 or 1, a stop PlanTime or PlanTime + 1 and an *)
(* increment of 1 or 2, with the ends kept or dropped.                     *)
(***************************************************************************)
PlanTime == 3

InitPlan ==
    \E f \in {"b", "m"}, e \in BOOLEAN, lo \in -1 .. 1, hi \in PlanTime .. PlanTime + 1,
       inc \in 1 .. 2,
       ts \in {x \in [1 .. 3 -> 0 .. 2 * PlanTime] : x[1] < x[2] /\ x[2] < x[3]} :
        InitWith([New_Ctrl EXCEPT !.F_filter = f, !.F_width = R(2), !.E_active = e,
                      !.T_active = TRUE, !.T_set = 3, !.T_min = R(lo),
                      !.T_max = R(hi), !.T_inc = R(inc)],
                 Dataset(<<Segment([i \in 1 .. 3 |-> <<Rat(ts[i], 2), R(i * i)>>])>>))

SpecPlan == InitPlan /\ [][Next]_vars

\* the start and the stop of the plan before half_width is taken off
PlannedStart == IF F.use_ends THEN F.t_start ELSE Sub(F.t_start, F.half_width)

PlannedStop == IF F.use_ends THEN F.t_stop ELSE Add(F.t_stop, F.half_width)

\* x is a whole number of increments away from y
WholeSteps(x, y) == Div(Sub(x, y), F.t_int)[2] = 1

\* C21: with -T<min>/<max>/<inc>, once the filter is set up, a start inside
\* the data is used as given and a start before the first time t_0 is
\* replaced by one not earlier than t_0; a stop inside the data is used as
\* given and a stop after the last time t_1 is replaced by one not later
\* than t_1; the planned start and the planned stop are a whole number of
\* increments away from the start that was given.
C21_PlanClamped ==
    (pc \in {"begin", "loop"} /\ F.out_at_time /\ F.T.set = 3) =>
        /\ IF Ge(Ctrl.T_min, TimeOfRow(0)) THEN PlannedStart = Ctrl.T_min
           ELSE Ge(PlannedStart, TimeOfRow(0))
        /\ IF Le(Ctrl.T_max, TimeOfRow(LastRow)) THEN PlannedStop = Ctrl.T_max
           ELSE Le(PlannedStop, TimeOfRow(LastRow))
        /\ WholeSteps(PlannedStart, Ctrl.T_min)
        /\ WholeSteps(PlannedStop, Ctrl.T_min)

(***************************************************************************)
(* A width table that covers part of the output times: boxcar, robust      *)
(* boxcar and median filters, widths 2 or 4 given at the times 1 and       *)
(* VarTime - 1, output at the input times or at 0, 1, .. VarTime, three    *)
(* rows with non-decreasing times in 0 .. VarTime.                         *)
(***************************************************************************)
VarTime == 4

InitTable ==
    \E f \in {"b", "B", "m"}, e \in BOOLEAN, at \in BOOLEAN, w \in [1 .. 2 -> {2, 4}],
       ts \in {x \in [1 .. 3 -> 0 .. VarTime] : x[1] <= x[2] /\ x[2] <= x[3]} :
        InitWith([New_Ctrl EXCEPT !.F_filter = f, !.F_variable = TRUE,
                      !.F_table = [n_segments |-> 1,
                                   segment |-> (0 :> [n_rows |-> 2,
                                                      ft |-> ArrR(<<1, VarTime - 1>>),
                                                      fw |-> ArrR(w)])],
                      !.E_active = e,
                      !.T_active = at, !.T_set = IF at THEN 3 ELSE 0,
                      !.T_max = IF at THEN R(VarTime) ELSE R(0),
                      !.T_inc = IF at THEN R(1) ELSE R(0)],
                 Dataset(<<Segment(Rows2(ts, [i \in 1 .. 3 |-> R(i * i)]))>>))

SpecTable == InitTable /\ [][Next]_vars

\* a pass of the output loop for the time T = T.array[k]
PointStep == pc = "loop" /\ loc.k <= loc.last_k /\ seg' = seg

\* T lies outside the times of the width table
OutsideTable(T) == Lt(T, F.ft[0]) \/ Gt(T, F.ft[F.nw - 1])

\* the width of a table of two rows at the time T, on the straight line
\* through its rows
TableWidthAt(T) ==
    Add(F.fw[0], Div(Mul(Sub(F.fw[1], F.fw[0]), Sub(T, F.ft[0])),
                     Sub(F.ft[1], F.ft[0])))

\* the rows lo .. hi-1 are at least h before T (side -1) or at most h after
\* it (side 1), and row hi, if there is one, is not
AdvancedWith(lo, hi, T, h, side) ==
    /\ lo <= hi
    /\ \A r \in lo .. hi - 1 :
          IF side < 0 THEN Ge(Sub(T, F.data[F.t_col][r]), h)
          ELSE Le(Sub(F.data[F.t_col][r], T), h)
    /\ hi < F.n_rows =>
          IF side < 0 THEN Le(Sub(T, F.data[F.t_col][hi]), h)
          ELSE Ge(Sub(F.data[F.t_col][hi], T), h)

\* C22: with a width table, a pass for a time T outside the times of the
\* table writes no record and leaves left, right, last_loc, this_loc,
\* last_scl and this_scl as they were; a pass that reaches the window has
\* half_width equal to half the width of the table at T, and left and right
\* are advanced from their old values with that half_width.
C22_VariableWidthPerPoint ==
    [][(PointStep /\ F.variable) =>
          /\ OutsideTable(F.T.array[loc.k]) =>
                /\ out' = out
                /\ loc'.left = loc.left /\ loc'.right = loc.right
                /\ loc'.k = loc.k + 1
                /\ F'.last_loc = F.last_loc /\ F'.this_loc = F.this_loc
                /\ F'.last_scl = F.last_scl /\ F'.this_scl = F.this_scl
          /\ pt'.branch \in {"nothing", "filtered"} =>
                /\ ~OutsideTable(F.T.array[loc.k])
                /\ F'.filter_width = TableWidthAt(F.T.array[loc.k])
                /\ F'.half_width = Div(TableWidthAt(F.T.array[loc.k]), R(2))
                /\ AdvancedWith(loc.left, pt'.left, F.T.array[loc.k], F'.half_width, -1)
                /\ AdvancedWith(loc.right, pt'.right, F.T.array[loc.k], F'.half_width, 1)
                /\ loc'.left = pt'.left /\ loc'.right = pt'.right]_vars

\* a time after the last time of the table is passed over after records
\* were written and the pointers had moved
C22_Witness ==
    /\ pc = "loop" /\ pt.branch = "outside_table"
    /\ Gt(pt.t_time, F.ft[F.nw - 1])
    /\ Len(out) > 1 /\ loc.left > 0
    /\ F.fw[0] # F.fw[1]

(***************************************************************************)
(* The estimate state of the robust and median filters, over the runs of   *)
(* SpecGate.                                                               *)
(***************************************************************************)
\* the values of column c of the segment being filtered that are not NaN
ColumnValues(c) ==
    {D.segment[seg].data[c][r] : r \in 0 .. LastRow} \ {d_NaN}

\* the largest and the smallest of a set of values
LargestOf(S) == CHOOSE v \in S : \A x \in S : Le(x, v)

SmallestOf(S) == CHOOSE v \in S : \A x \in S : Le(v, x)

\* the segment is loaded and no output time has been looked at
FilteringStarts ==
    pc \in {"setup", "begin"} \/ (pc = "loop" /\ pt.branch = "none")

\* the estimate state of column c as the claim gives it for the extrema lo, hi
StartingEstimates(c, lo, hi) ==
    /\ F.min_loc[c] = lo /\ F.max_loc[c] = hi
    /\ F.min_scl[c] = R(0)
    /\ F.max_scl[c] = Mul(Rat(1, 2), Sub(hi, lo))
    /\ F.last_scl[c] = Mul(Rat(1, 2), F.max_scl[c])
    /\ F.last_loc[c] = Mul(Rat(1, 2), Add(hi, lo))

\* C23: for a robust convolution and for a median filter, when the
\* filtering of a segment starts every column with a value has min_scl = 0,
\* max_scl = (max-min)/2, last_scl = max_scl/2 and last_loc = (max+min)/2
\* for the extrema of its values in that segment; a pass of the output loop
\* leaves min_loc, max_loc, min_scl and max_scl alone and changes last_loc
\* and last_scl only of columns that pass the gates of that point.
C23_EstimateState ==
    /\ [](FilteringStarts /\ TrackExtrema(F) =>
            \A c \in Cols(F) :
                ColumnValues(c) # {} =>
                    StartingEstimates(c, SmallestOf(ColumnValues(c)),
                                         LargestOf(ColumnValues(c))))
    /\ [][(PointStep /\ TrackExtrema(F)) =>
            /\ F'.min_loc = F.min_loc /\ F'.max_loc = F.max_loc
            /\ F'.min_scl = F.min_scl /\ F'.max_scl = F.max_scl
            /\ \A c \in Cols(F) :
                  (F'.last_loc[c] # F.last_loc[c] \/ F'.last_scl[c] # F.last_scl[c])
                      => (pt'.branch = "filtered" /\ pt'.good_one[c])]_vars

(***************************************************************************)
(* The robust sum, over series of four rows at the times 0 .. ClipTime-1   *)
(* with values that lie far apart or are absent: robust boxcar, boxcar,    *)
(* median, mode and extreme filters in lower and upper case, widths 2 and  *)
(* 4, output at the input times with the ends kept.                        *)
(***************************************************************************)
ClipTime == 4

InitClip ==
    \E f \in {"b", "B", "m", "M", "p", "P", "l", "L"}, w \in {2, 4},
       vs \in [1 .. ClipTime -> {R(0), R(1), R(20), d_NaN}] :
        InitWith([New_Ctrl EXCEPT !.F_filter = f, !.F_width = R(w), !.E_active = TRUE],
                 Dataset(<<Segment([i \in 1 .. ClipTime |-> <<R(i - 1), vs[i]>>])>>))

SpecClip == InitClip /\ [][Next]_vars

\* the values of column c in the rows rs, in any order
RECURSIVE SamplesOf(_, _)
SamplesOf(c, rs) ==
    IF rs = {} THEN <<>>
    ELSE <<F.data[c][CHOOSE r \in rs : TRUE]>> \o SamplesOf(c, rs \ {CHOOSE r \in rs : TRUE})

\* the median of the present window samples of column c at the last point
WindowMedian(c) == gmt_median(SamplesOf(c, PresentRows(c)))

\* the median of the distances of those samples from their median
WindowScale(c) ==
    gmt_median([i \in 1 .. Cardinality(PresentRows(c)) |->
                   fabs(Sub(SamplesOf(c, PresentRows(c))[i], WindowMedian(c)))])

\* the sample of row r lies further than 2.5 scales from the median
FarOut(c, r) ==
    ~Le(fabs(Sub(F.data[c][r], WindowMedian(c))), Mul(Rat(5, 2), WindowScale(c)))

\* the weighted sum over the rows rs with far samples replaced by the median
RECURSIVE ReplacedSum(_, _)
ReplacedSum(c, rs) ==
    IF rs = {} THEN R(0)
    ELSE Add(Mul(F.f_wt[WeightIndex(F, pt.t_time, CHOOSE r \in rs : TRUE)],
                 IF FarOut(c, CHOOSE r \in rs : TRUE) THEN WindowMedian(c)
                 ELSE F.data[c][CHOOSE r \in rs : TRUE]),
             ReplacedSum(c, rs \ {CHOOSE r \in rs : TRUE}))

\* the filter code of the run in lower case
LowerCaseCtrl == [Ctrl EXCEPT !.F_filter = tolower(Ctrl.F_filter)]

\* C24: in a robust convolution the value of a passing column is the
\* weighted mean of its window samples, each taken as it is when it lies
\* within 2.5 scales of the location and as the location otherwise, the
\* location being the median and the scale the median absolute deviation of
\* all present window samples of that column at the same point.  For the
\* median, mode and extreme filters the robust flag is off, and the upper
\* case M and P are set up exactly as m and p and write the median of the
\* unchanged window samples.
C24_RobustReplacement ==
    /\ (RecordWritten /\ F.robust) =>
           \A c \in Cols(F) :
               pt.good_one[c] =>
                   /\ pt.data_sum[c] = ReplacedSum(c, UsedRows(c))
                   /\ out[Len(out)].data[c]
                          = Div(ReplacedSum(c, UsedRows(c)), WeightsOver(UsedRows(c)))
    /\ F.filter_type > FILTER1D_CONVOLVE => ~F.robust
    /\ Ctrl.F_filter \in {"M", "P"} =>
           /\ filter1d_load_parameters(Ctrl, D.n_columns)
                  = filter1d_load_parameters(LowerCaseCtrl, D.n_columns)
           /\ (RecordWritten /\ Ctrl.F_filter = "M") =>
                  \A c \in Cols(F) :
                      pt.good_one[c] => out[Len(out)].data[c] = WindowMedian(c)

\* a robust boxcar has written a value in which one sample was replaced by
\* the median and another was taken as it is
C24_Witness ==
    /\ RecordWritten /\ F.robust
    /\ \E c \in Cols(F) :
           /\ pt.good_one[c]
           /\ \E r, q \in UsedRows(c) :
                  /\ FarOut(c, r) /\ ~FarOut(c, q)
                  /\ F.data[c][q] # WindowMedian(c)

\* the last row the scan of the native start reads, and the rows the
\* tolerance of the set-up reads, lie in 0 .. n_rows-1
SetUpReadsInside ==
    (pc = "setup" /\ ~F.variable /\ ~F.out_at_time /\ ~F.use_ends
        /\ ~KernelUndefined(F, SetUpDt(F))) =>
        /\ 1 <= F.n_rows - 1
        /\ ScanStart(SetUpCoefficients(F), NativeSmall(F), 0) <= F.n_rows - 1

\* the last row the scan for the first output row reads, and the element
\* [1] of the output times read for the tolerance, lie inside their arrays
BeginReadsInside ==
    pc = "begin" =>
        IF F.out_at_time
        THEN ~gmt_create_array(F).err => 1 <= gmt_create_array(F).n - 1
        ELSE ScanK(F, 0) <= F.n_rows - 1 /\ 1 <= F.n_rows - 1

\* C25: every read of the time array made while the output range is
\* planned and started stays inside the rows 0 .. n_rows-1 (inside the
\* output times for the tolerance of the loop): the scan of the native
\* start, the scan for the first output row and the reads of element [1],
\* also for a series shorter than the half width, for a segment of one row
\* and for a plan with one output time.
C25_ScansStayInside == SetUpReadsInside /\ BeginReadsInside

\* the rows r .. n_rows-1 of the current segment whose time is not NaN, in input order
RECURSIVE RowsWithTime(_)
RowsWithTime(r) ==
    IF r >= D.segment[seg].n_rows THEN <<>>
    ELSE IF is_dnan(D.segment[seg].data[Ctrl.N_col][r]) THEN RowsWithTime(r + 1)
    ELSE <<r>> \o RowsWithTime(r + 1)

\* C26: after a segment is loaded, n_rows is the number of its rows whose
\* time is not NaN, and the rows 0 .. n_rows-1 of the filter's data are
\* exactly those rows in input order, every column of them.
C26_NaNTimeRowsDropped ==
    pc \in {"setup", "begin", "loop"} =>
        /\ F.n_rows = Len(RowsWithTime(0))
        /\ \A i \in 1 .. Len(RowsWithTime(0)) :
               \A c \in Cols(F) :
                   F.data[c][i - 1] = D.segment[seg].data[c][RowsWithTime(0)[i]]

\* row r of the current segment lies inside the table of widths and, unless
\* the ends are kept, at least its own half width from both ends of the series
RowToVisit(r) ==
    /\ ~OutsideTable(TimeOfRow(r))
    /\ \/ F.use_ends
       \/ /\ Ge(Sub(TimeOfRow(r), TimeOfRow(0)), Div(TableWidthAt(TimeOfRow(r)), R(2)))
          /\ Ge(Sub(TimeOfRow(LastRow), TimeOfRow(r)), Div(TableWidthAt(TimeOfRow(r)), R(2)))

\* C27: with a table of widths and output at the input times, the range of
\* output rows k .. last_k of a segment contains every row of that segment
\* that lies inside the table and at least its interpolated half width from
\* both ends (every row inside the table when the ends are kept), whatever
\* t_start and t_stop held before the segment.
C27_VariableRangeFromSegment ==
    (pc = "loop" /\ pt.branch = "none" /\ F.variable /\ ~F.out_at_time) =>
        \A r \in 0 .. LastRow : RowToVisit(r) => (loc.k <= r /\ r <= loc.last_k)


(***************************************************************************)
(* Windows that outgrow the first work array: a segment of WorkRows rows   *)
(* at the times 0, 1, .. with the last row moved out, followed by a        *)
(* segment of three rows; boxcar, robust boxcar and median filters of the  *)
(* widths 2 and 20, with and without the symmetry check and a time step    *)
(* of 4, the ends kept.                                                    *)
(***************************************************************************)
WorkRows == 10

InitWork ==
    \E f \in {"b", "B", "m"}, w \in {2, 20}, sc \in BOOLEAN, far \in {0, 1},
       inc \in {0, 4}, p \in {0, 1, WorkRows} :
        InitWith([New_Ctrl EXCEPT !.F_filter = f, !.F_width = R(w), !.E_active = TRUE,
                                  !.S_active = sc, !.S_value = R(1),
                                  !.D_active = inc > 0, !.D_inc = R(inc)],
                 Dataset(<<Segment([i \in 1 .. WorkRows |->
                                      <<R(IF i = WorkRows THEN i - 1 + far ELSE i - 1),
                                        IF i = p THEN d_NaN ELSE R(i % 4)>>]),
                           Segment(Rows2(<<0, 2, 10>>, <<R(1), R(4), R(9)>>))>>))

SpecWork == InitWork /\ [][Next]_vars

\* the middle of the weights plus the whole number of steps dt nearest to
\* the distance of row r from the last output time
StepsIndex(r) ==
    F.half_n_f_wts
        + FloorR(Add(Div(Sub(pt.t_time, F.data[F.t_col][r]), F.dt), Rat(1, 2)))

\* the present window samples of column c whose index is a position of f_wt
InRangeRows(c) == {r \in PresentRows(c) : StepsIndex(r) \in 0 .. F.n_f_wts - 1}

\* sum(f_wt[i]) over the rows rs
RECURSIVE IndexedWeights(_)
IndexedWeights(rs) ==
    IF rs = {} THEN R(0)
    ELSE Add(F.f_wt[StepsIndex(CHOOSE r \in rs : TRUE)],
             IndexedWeights(rs \ {CHOOSE r \in rs : TRUE}))

\* sum(f_wt[i] * value) over the rows rs, the value being the sample, or in
\* a robust filter the sample or the median
RECURSIVE IndexedValues(_, _)
IndexedValues(c, rs) ==
    IF rs = {} THEN R(0)
    ELSE Add(Mul(F.f_wt[StepsIndex(CHOOSE r \in rs : TRUE)],
                 IF F.robust /\ FarOut(c, CHOOSE r \in rs : TRUE)
                 THEN WindowMedian(c)
                 ELSE F.data[c][CHOOSE r \in rs : TRUE]),
             IndexedValues(c, rs \ {CHOOSE r \in rs : TRUE}))

\* the rows of rs before (side -1) or after (side 1) the last output time
SideOf(rs, side) ==
    {r \in rs : IF side < 0 THEN Lt(F.data[F.t_col][r], pt.t_time)
                ELSE Gt(F.data[F.t_col][r], pt.t_time)}

\* a convolution has decided the columns of the last point
Convolved == pc = "loop" /\ pt.branch = "filtered" /\ F.filter_type <= FILTER1D_CONVOLVE

\* the sums and the count of a convolved column come from the in-range rows only
SumsFromInRange(c) ==
    /\ InRangeRows(c) \subseteq {r \in PresentRows(c) : StepsIndex(r) \in DOMAIN F.f_wt}
    /\ pt.wt_sum[c] = IndexedWeights(InRangeRows(c))
    /\ pt.data_sum[c] = IndexedValues(c, InRangeRows(c))
    /\ pt.n_this_col[c] = Cardinality(InRangeRows(c))

\* the asymmetry counters of column c count the rows rs
CountersFrom(c, rs) ==
    /\ pt.n_left[c] = Cardinality(SideOf(rs, -1))
    /\ pt.n_right[c] = Cardinality(SideOf(rs, 1))

\* the work array holds the samples gathered at the last point, and never shrinks
WorkFits ==
    /\ (pc = "loop" /\ pt.branch = "filtered" /\ UsesWork(F)) =>
           \A c \in Cols(F) : pt.good_lack[c] => Cardinality(PresentRows(c)) <= F.n_work_alloc
    /\ F.n_work_alloc >= GMT_CHUNK

\* C28 as stated: in every convolution the weight sum, the data sum, the
\* sample count and the asymmetry counters of a column come from the window
\* samples whose index half_n_f_wts + round(delta_t/dt) lies in
\* 0 .. n_f_wts-1, those indices being the only ones at which f_wt is read;
\* the work array is large enough for every sample written to it and
\* n_work_alloc never decreases.
C28_OutOfRangeIgnored ==
    /\ [](/\ Convolved =>
               \A c \in Cols(F) :
                   pt.good_robust[c] =>
                       /\ SumsFromInRange(c)
                       /\ F.check_asym => CountersFrom(c, InRangeRows(c))
          /\ WorkFits)
    /\ [][F'.n_work_alloc >= F.n_work_alloc]_vars

\* C28 for the two kinds of convolution: as above, but the asymmetry
\* counters come from the in-range samples in a plain convolution only; in
\* a robust convolution they are counted before it, from every present
\* window sample of the column.
C28_OutOfRangeIgnoredInSums ==
    /\ [](/\ Convolved =>
               \A c \in Cols(F) :
                   pt.good_robust[c] =>
                       /\ SumsFromInRange(c)
                       /\ F.check_asym =>
                              CountersFrom(c, IF F.robust THEN PresentRows(c)
                                              ELSE InRangeRows(c))
          /\ WorkFits)
    /\ [][F'.n_work_alloc >= F.n_work_alloc]_vars

\* in the second segment, with the work array grown by the first, a column
\* of a robust and checked convolution has passed with a sample left out of
\* its sums
C28_Witness ==
    /\ Convolved /\ pt.emitted /\ F.check_asym /\ F.robust
    /\ seg = 1 /\ F.n_work_alloc > GMT_CHUNK
    /\ \E c \in Cols(F) :
           /\ pt.good_one[c]
           /\ InRangeRows(c) # PresentRows(c)

\* the two pointer loops of the last pass have run
PointersAdvanced == pc = "loop" /\ pt.branch \in {"nothing", "filtered"}

\* the last row filter1d_lack_check reads for column c in the window
\* left .. right-1: it steps over rows while they are below right-1
LastLackRow(c) == IF pt.right - 1 >= pt.left THEN pt.right - 1 ELSE pt.left

SymTime == 6

InitSym ==
    \E f \in {"b", "B", "m", "u"}, sc \in {R(0), Rat(1, 2), R(1)}, p \in 0 .. 3,
       ts \in {x \in [1 .. 3 -> 0 .. SymTime] :
                  x[1] <= x[2] /\ x[2] <= x[3] /\ x[1] % 2 = 0 /\ x[3] = SymTime} :
        InitWith([New_Ctrl EXCEPT !.F_filter = f, !.F_width = R(2), !.E_active = TRUE,
                                  !.S_active = TRUE, !.S_value = sc],
                 Dataset(<<Segment([i \in 1 .. 3 |->
                                      <<R(ts[i]), IF i = p THEN d_NaN ELSE R(i * i)>>])>>))

SpecSym == InitSym /\ [][Next]_vars

\* the present window samples of column c all lie at the last output time
OnlyAtTime(c) ==
    /\ PresentRows(c) # {}
    /\ \A r \in PresentRows(c) : F.data[F.t_col][r] = pt.t_time

\* C30: with the symmetry check on (and no other check), a column whose
\* present window samples all lie exactly at the output time, at least one
\* of them, has n_left = n_right = 0, is not rejected for the coefficients
\* 0, 0.5 and 1, the pass has a defined outcome, and its value is written:
\* a finite value, the sample itself when there is one sample.
C30_SamplesAtTimeOnly ==
    (pc \in {"loop", "undefined"} /\ pt.branch \in {"filtered", "undefined"}
        /\ F.check_asym /\ ~F.check_lack /\ ~F.check_q) =>
        \A c \in Cols(F) \ {F.t_col} :
            OnlyAtTime(c) =>
                /\ pt.branch = "filtered"
                /\ pt.n_left[c] = 0 /\ pt.n_right[c] = 0
                /\ pt.good_one[c] /\ pt.emitted
                /\ IsFin(out[Len(out)].data[c])
                /\ \A r \in PresentRows(c) :
                       PresentRows(c) = {r} => out[Len(out)].data[c] = F.data[c][r]

\* a boxcar with -S0 has written the value of a column whose only window
\* sample lies at the output time, after a point with samples on one side
C30_Witness ==
    /\ pc = "loop" /\ pt.branch = "filtered" /\ pt.emitted
    /\ F.check_asym /\ F.sym_coeff = R(0) /\ F.filter_type = FILTER1D_BOXCAR
    /\ \E c \in Cols(F) \ {F.t_col} :
           OnlyAtTime(c) /\ Cardinality(PresentRows(c)) = 1 /\ pt.good_one[c]
    /\ Len(out) > 1

=============================================================================
